---------------------------- MODULE Spec2Model ----------------------------
(***************************************************************************)
(* Price Monitor Pro (electron-app/src/main.js): the price-acquisition     *)
(* engine.  Rate limiter, response cache, fetch orchestration, fallback    *)
(* generator, product store handlers and the price-check loop.             *)
(*                                                                         *)
(* Time is the value of Date.now() in milliseconds.  Strings are sequences *)
(* of one-character strings.  Prices are whole dollars.                    *)
(***************************************************************************)
EXTENDS Integers, Sequences, FiniteSets, TLC

VARIABLES
    now,          \* Date.now()
    requests,     \* rateLimiter.requests : key -> timestamps
    priceCache,   \* priceCache : cache key -> {title, price, timestamp}
    products,     \* store.get('products'): the persisted product list
    tasks,        \* the suspended async calls: id -> frame
    ops,          \* number of calls and handler invocations started so far
    rlWaiters,    \* direct callers of waitIfNeeded suspended in its setTimeout
    rlCalls,      \* number of waitIfNeeded calls made so far by direct callers
    admitted,     \* history: per key, the times at which waitIfNeeded returned
    httpLog,      \* history: per cache key, the latest HTTP request issued
    cacheStored,  \* history: per cache key, the time of the last priceCache.set
    lastResolved, \* history: the latest resolve() of a scrape promise
    lastReply,    \* history: the latest value an ipc handler returned
    replies,      \* history: number of values ipc handlers returned
    sent,         \* mainWindow.webContents.send: the messages of the latest handler step
    settings,     \* store.get('settings', {})
    autoCheckTimer \* the interval timer set by scheduleAutoCheck

vars == <<now, requests, priceCache, products, tasks, ops, rlWaiters, rlCalls,
          admitted, httpLog, cacheStored, lastResolved, lastReply, replies, sent,
          settings, autoCheckTimer>>

(***************************************************************************)
(* Bounds of the model.                                                    *)
(***************************************************************************)
MaxTicks == 4
MaxRLCalls == 8
MaxRLWaiters == 2
MaxCalls == 6
MaxPending == 2
MaxEpochs == 2
MaxWindows == 1
MaxOtherCalls == 1
MaxOps == 4
MaxRunning == 1
MaxAutoChecks == 104
MaxOverlap == 2
MaxFallbackCalls == 2
MaxFallbackAcquires == 1


(***************************************************************************)
(* Program constants.                                                      *)
(***************************************************************************)
maxRequests == 5
windowMs == 60000
cacheTtl == 300000
maxProductsFree == 3
priceDropThreshold == 5
maxHistory == 100
checkInterval == 3600000

\* The steps of the simulated clock.
TickMs == windowMs \div 3
Clock == {i * TickMs : i \in 0..MaxTicks}

(***************************************************************************)
(* Map helpers (a JavaScript Map is a function with a growing domain).     *)
(***************************************************************************)
EmptyMap == [k \in {} |-> 0]
MapGet(m, k, default) == IF k \in DOMAIN m THEN m[k] ELSE default
MapSet(m, k, v) == [x \in (DOMAIN m) \cup {k} |-> IF x = k THEN v ELSE m[x]]
MapDel(m, k) == [x \in (DOMAIN m) \ {k} |-> m[x]]

(***************************************************************************)
(* Sequence helpers.                                                       *)
(***************************************************************************)
RECURSIVE SelectOlder(_, _, _)
SelectOlder(s, t, w) ==
    IF s = <<>> THEN <<>>
    ELSE IF t - Head(s) < w THEN <<Head(s)>> \o SelectOlder(Tail(s), t, w)
         ELSE SelectOlder(Tail(s), t, w)

(***************************************************************************)
(* Strings: sequences of one-character strings, with the String methods    *)
(* the program uses.                                                       *)
(***************************************************************************)
LowerCase == <<"a","b","c","d","e","f","g","h","i","j","k","l","m",
               "n","o","p","q","r","s","t","u","v","w","x","y","z">>
UpperCase == <<"A","B","C","D","E","F","G","H","I","J","K","L","M",
               "N","O","P","Q","R","S","T","U","V","W","X","Y","Z">>
Digits == <<"0","1","2","3","4","5","6","7","8","9">>

InSeq(c, s) == \E i \in 1..Len(s) : s[i] = c
IndexIn(c, s) == CHOOSE i \in 1..Len(s) : s[i] = c

\* String.prototype.charCodeAt for the characters the model uses.
charCodeAt(c) ==
    IF InSeq(c, LowerCase) THEN 96 + IndexIn(c, LowerCase)
    ELSE IF InSeq(c, UpperCase) THEN 64 + IndexIn(c, UpperCase)
    ELSE IF InSeq(c, Digits) THEN 47 + IndexIn(c, Digits)
    ELSE CASE c = " " -> 32 [] c = "!" -> 33 [] c = "+" -> 43 [] c = "-" -> 45
           [] c = "." -> 46 [] c = "/" -> 47 [] c = ":" -> 58 [] c = "=" -> 61
           [] c = "?" -> 63 [] c = "_" -> 95

lowerChar(c) == IF InSeq(c, UpperCase) THEN LowerCase[IndexIn(c, UpperCase)] ELSE c
upperChar(c) == IF InSeq(c, LowerCase) THEN UpperCase[IndexIn(c, LowerCase)] ELSE c

\* String.prototype.toLowerCase
toLowerCase(s) == [i \in 1..Len(s) |-> lowerChar(s[i])]

\* String.prototype.includes
includes(s, sub) ==
    \E i \in 0..(Len(s) - Len(sub)) : \A j \in 1..Len(sub) : s[i + j] = sub[j]

\* String.prototype.trim (white space is the blank)
RECURSIVE trimStart(_)
trimStart(s) == IF s # <<>> /\ Head(s) = " " THEN trimStart(Tail(s)) ELSE s
RECURSIVE trimEnd(_)
trimEnd(s) ==
    IF s # <<>> /\ s[Len(s)] = " " THEN trimEnd(SubSeq(s, 1, Len(s) - 1)) ELSE s
trim(s) == trimEnd(trimStart(s))

\* str.replace(/[^a-z0-9]/g, '')
RECURSIVE stripNonAlnum(_)
stripNonAlnum(s) ==
    IF s = <<>> THEN <<>>
    ELSE IF InSeq(Head(s), LowerCase) \/ InSeq(Head(s), Digits)
         THEN <<Head(s)>> \o stripNonAlnum(Tail(s))
         ELSE stripNonAlnum(Tail(s))

(***************************************************************************)
(* The 32-bit string hash of getSearchFallbackPrice and getFallbackPrice,  *)
(* main.js 919-924 and 1169-1174.  A 32-bit integer is kept as its two     *)
(* unsigned 16-bit halves <<high, low>>, so that no intermediate value     *)
(* leaves the range of the checker's integers.                             *)
(***************************************************************************)
\* a * b for 16-bit a and b, as halves <<high, low>>
mul16(a, b) ==
    LET p0 == a * (b % 256)
        p1 == a * (b \div 256)
        lo == p0 + (p1 % 256) * 256
    IN  <<((lo \div 65536) + (p1 \div 256)) % 65536, lo % 65536>>

\* x * y and x + y modulo 2^32
mul32(x, y) ==
    LET ll == mul16(x[2], y[2]) IN
    <<(ll[1] + mul16(x[1], y[2])[2] + mul16(x[2], y[1])[2]) % 65536, ll[2]>>
add32(x, y) ==
    LET lo == x[2] + y[2] IN <<(x[1] + y[1] + (lo \div 65536)) % 65536, lo % 65536>>

\* 31^k modulo 2^32
RECURSIVE pow31(_)
pow31(k) ==
    IF k = 0 THEN <<0, 1>>
    ELSE LET r == pow31(k \div 2)
             sq == mul32(r, r)
         IN  IF k % 2 = 0 THEN sq ELSE mul32(sq, <<0, 31>>)

\* for each char: hash = ((hash << 5) - hash) + char; hash = hash & hash
\* that is hash = (hash * 31 + char) modulo 2^32, from hash = 0.  The loop is
\* evaluated by halves of the string: h(a ++ b) = h(a) * 31^|b| + h(b).
RECURSIVE hashLoop(_)
hashLoop(s) ==
    IF s = <<>> THEN <<0, 0>>
    ELSE IF Len(s) = 1 THEN <<0, charCodeAt(s[1])>>
    ELSE LET mid == Len(s) \div 2
             a == SubSeq(s, 1, mid)
             b == SubSeq(s, mid + 1, Len(s))
         IN  add32(mul32(hashLoop(a), pow31(Len(b))), hashLoop(b))

hashIsNegative(h) == h[1] >= 32768

\* Math.abs(hash), as halves: 2^32 - h for a negative h (2^31 for -2^31).
absHash(h) ==
    IF ~hashIsNegative(h) THEN h
    ELSE <<65536 - h[1] - (IF h[2] = 0 THEN 0 ELSE 1), (65536 - h[2]) % 65536>>

\* Math.abs(hash) % m
absHashMod(h, m) ==
    LET a == absHash(h) IN (((a[1] % m) * (65536 % m)) + a[2]) % m

(***************************************************************************)
(* Platform names and the two URLs of the test handlers.                   *)
(***************************************************************************)
s_amazon == <<"a","m","a","z","o","n">>
s_ebay == <<"e","b","a","y">>
s_walmart == <<"w","a","l","m","a","r","t">>
s_bestbuy == <<"b","e","s","t","b","u","y">>
s_target == <<"t","a","r","g","e","t">>
SupportedPlatforms == {s_amazon, s_ebay, s_walmart, s_bestbuy, s_target}

testAmazonUrl ==
    <<"h","t","t","p","s",":","/","/","w","w","w",".","a","m","a","z","o","n",".",
      "c","o","m","/","s","?","k","=","a","p","p","l","e","+","i","p","h","o","n","e",
      "+","1","3","+","m","i","n","i","+","1","2","8","g","b","+","u","n","l","o","c",
      "k","e","d">>
testEbayUrl ==
    <<"h","t","t","p","s",":","/","/","w","w","w",".","e","b","a","y",".","c","o","m",
      "/","s","c","h","/","i",".","h","t","m","l","?","_","n","k","w","=","a","p","p",
      "l","e","+","i","p","h","o","n","e","+","1","3","+","m","i","n","i","+","1","2",
      "8","g","b","+","u","n","l","o","c","k","e","d">>

\* The hash of a string; the hashes of the two URLs, which every check of a
\* test product needs again, are computed once.
urlHashes == [url \in {testAmazonUrl, testEbayUrl} |-> hashLoop(url)]
hashOf(s) == IF s \in DOMAIN urlHashes THEN urlHashes[s] ELSE hashLoop(s)

\* new URL(url).hostname, for a URL "https://<host>/..."
RECURSIVE upToSlash(_)
upToSlash(s) ==
    IF s = <<>> \/ Head(s) = "/" THEN <<>> ELSE <<Head(s)>> \o upToSlash(Tail(s))
hostname(url) == upToSlash(SubSeq(url, 9, Len(url)))

(***************************************************************************)
(* JavaScript values that may be null: {kind, ...}.                        *)
(***************************************************************************)
Null == [kind |-> "null"]
Num(n) == [kind |-> "number", n |-> n]
Obj(title, price) == [kind |-> "object", title |-> title, price |-> price]

(***************************************************************************)
(* getSearchFallbackPrice, main.js 913-1002.                               *)
(***************************************************************************)
\* The multipliers without the default (`|| 1.0`): an unlisted platform gets
\* no base price.
platformMultiplierNoDefault(platform) ==
    CASE platform = s_ebay -> 85
      [] platform = s_amazon -> 100
      [] platform = s_walmart -> 90
      [] platform = s_bestbuy -> 95
      [] platform = s_target -> 95
      [] OTHER -> 0

\* platformMultiplier[platform] || 1.0, in percent
platformMultiplier(platform) ==
    CASE platform = s_ebay -> 85
      [] platform = s_amazon -> 100
      [] platform = s_walmart -> 90
      [] platform = s_bestbuy -> 95
      [] platform = s_target -> 95
      [] OTHER -> 100

\* Math.floor(base * priceMultiplier)
floorPct(base, pct) == (base * pct) \div 100

\* platform.charAt(0).toUpperCase() + platform.slice(1)
capitalize(platform) ==
    IF platform = <<>> THEN <<>> ELSE <<upperChar(platform[1])>> \o Tail(platform)

Max(a, b) == IF a >= b THEN a ELSE b
Min(a, b) == IF a <= b THEN a ELSE b

\* A fallback whose price depends on what the cache holds.
getSearchFallbackPriceByCache(searchTerms, platform) ==
    Obj(searchTerms, 50 + Cardinality(DOMAIN priceCache))

\* parseFloat(fallbackPrice.toFixed(2)) of a whole number is that number.
getSearchFallbackPrice(searchTerms, platform) ==
    LET fallbackTitle ==
            searchTerms \o <<" ","-"," ">> \o capitalize(platform)
                        \o <<" ","R","e","s","u","l","t">>
        hash == hashOf(searchTerms)
        terms == toLowerCase(searchTerms)
        pct == platformMultiplier(platform)
        has(k) == includes(terms, k)
        phonePrice ==
            LET basePrice == floorPct(350, pct) IN
            IF has(<<"p","r","o"," ","m","a","x">>) \/ has(<<"1","5">>) \/ has(<<"1","4">>)
            THEN basePrice + 400 + (absHashMod(hash, 200) - 100)
            ELSE IF has(<<"1","3">>) \/ has(<<"1","2">>)
            THEN basePrice + 50 + (absHashMod(hash, 150) - 75)
            ELSE basePrice + (absHashMod(hash, 100) - 50)
        laptopPrice ==
            LET basePrice == floorPct(1000, pct) IN
            IF has(<<"p","r","o">>) \/ has(<<"m","3">>) \/ has(<<"m","2">>)
            THEN basePrice + 500 + (absHashMod(hash, 500) - 250)
            ELSE basePrice + (absHashMod(hash, 300) - 150)
        audioPrice ==
            LET basePrice == floorPct(120, pct) IN
            IF has(<<"p","r","o">>) \/ has(<<"m","a","x">>)
            THEN basePrice + 150 + (absHashMod(hash, 100) - 50)
            ELSE basePrice + (absHashMod(hash, 50) - 25)
        genericPrice ==
            LET estimatedPrice ==
                    IF has(<<"g","a","m","i","n","g">>) \/ has(<<"p","r","o","f","e","s","s","i","o","n","a","l">>)
                       \/ has(<<"p","r","e","m","i","u","m">>) THEN 200
                    ELSE IF has(<<"b","u","d","g","e","t">>) \/ has(<<"c","h","e","a","p">>)
                            \/ has(<<"b","a","s","i","c">>) THEN 25
                    ELSE 50
                basePrice == floorPct(estimatedPrice, pct)
                variation == absHashMod(hash, Max(20, (basePrice * 4) \div 10))
                                 - ((basePrice * 2) \div 10)
            IN  Max(10, basePrice + variation)
        price ==
            IF has(<<"i","p","h","o","n","e">>) \/ has(<<"p","h","o","n","e">>) THEN phonePrice
            ELSE IF has(<<"m","a","c","b","o","o","k">>) \/ has(<<"l","a","p","t","o","p">>) THEN laptopPrice
            ELSE IF has(<<"a","i","r","p","o","d","s">>) \/ has(<<"h","e","a","d","p","h","o","n","e">>)
                    \/ has(<<"e","a","r","b","u","d","s">>) THEN audioPrice
            ELSE genericPrice
    IN  Obj(fallbackTitle, price)

(***************************************************************************)
(* getFallbackPrice, main.js 1165-1220.                                    *)
(***************************************************************************)
getFallbackPrice(url) ==
    LET hash == hashOf(url)
        has(k) == includes(url, k)
        onEbay == has(<<"e","b","a","y">>)
        price ==
            IF has(<<"i","p","h","o","n","e">>) \/ has(<<"i","P","h","o","n","e">>) THEN
                IF has(<<"1","2","8","g","b">>) \/ has(<<"1","2","8","G","B">>)
                THEN (IF onEbay THEN 360 ELSE 380) + (absHashMod(hash, 60) - 30)
                ELSE IF has(<<"6","4","g","b">>) \/ has(<<"6","4","G","B">>)
                THEN (IF onEbay THEN 280 ELSE 320) + (absHashMod(hash, 40) - 20)
                ELSE (IF onEbay THEN 300 ELSE 350) + (absHashMod(hash, 100) - 50)
            ELSE IF has(<<"l","a","p","t","o","p">>) \/ has(<<"m","a","c","b","o","o","k">>)
            THEN (IF onEbay THEN 800 ELSE 1000) + (absHashMod(hash, 200) - 100)
            ELSE IF has(<<"h","e","a","d","p","h","o","n","e">>) \/ has(<<"a","i","r","p","o","d","s">>)
            THEN (IF onEbay THEN 100 ELSE 130) + (absHashMod(hash, 30) - 15)
            ELSE Max(10, (IF onEbay THEN 35 ELSE 50) + (absHashMod(hash, 20) - 10))
    IN  Num(price)

(***************************************************************************)
(* A response body, as the extraction rules see it: cands[i] is the price  *)
(* the i-th pattern of the list captures (0: the pattern does not match),  *)
(* titleMatch the text the title patterns capture (<<>>: none matches; a   *)
(* capture [^<]+ has at least one character, which may be a blank).        *)
(***************************************************************************)
Html(cands, titleMatch) == [cands |-> cands, titleMatch |-> titleMatch]

\* The number of patterns in amazonSelectors, ebaySelectors, ...
numSelectors(platform) ==
    CASE platform = s_amazon -> 13
      [] platform = s_ebay -> 11
      [] platform = s_walmart -> 6
      [] platform = s_bestbuy -> 7
      [] platform = s_target -> 6
      [] OTHER -> 0

\* The minimum with the phone keywords tested before the laptop keywords.
minPricePhoneFirst(platform, searchTerms) ==
    LET terms == toLowerCase(searchTerms) IN
    IF includes(terms, <<"i","p","h","o","n","e">>) \/ includes(terms, <<"p","h","o","n","e">>)
    THEN (IF platform = s_ebay THEN 150 ELSE 100)
    ELSE IF includes(terms, <<"m","a","c","b","o","o","k">>) \/ includes(terms, <<"l","a","p","t","o","p">>)
    THEN (IF platform = s_ebay THEN 500 ELSE 400)
    ELSE 50

\* let minPrice = 50; if (macbook || laptop) ... else if (iphone || phone) ...
minPrice(platform, searchTerms) ==
    LET terms == toLowerCase(searchTerms) IN
    IF includes(terms, <<"m","a","c","b","o","o","k">>) \/ includes(terms, <<"l","a","p","t","o","p">>)
    THEN (IF platform = s_ebay THEN 500 ELSE 400)
    ELSE IF includes(terms, <<"i","p","h","o","n","e">>) \/ includes(terms, <<"p","h","o","n","e">>)
    THEN (IF platform = s_ebay THEN 150 ELSE 100)
    ELSE 50

\* The validation of one candidate price.
validPrice(price, platform, searchTerms) ==
    IF platform = s_amazon
    THEN price >= 10 /\ price <= 5000 /\ price >= minPrice(platform, searchTerms)
    ELSE price >= minPrice(platform, searchTerms) /\ price <= 5000

\* The loop stopping at the first pattern that matches: its candidate is
\* returned when valid, and no later pattern is tried when it is not.
firstMatchingSelector(html, platform, searchTerms) ==
    LET n == Min(Len(html.cands), numSelectors(platform))
        matching == {i \in 1..n : html.cands[i] # 0}
        first == CHOOSE i \in matching : \A j \in matching : i <= j
    IN  IF matching = {} THEN 0
        ELSE IF validPrice(html.cands[first], platform, searchTerms) THEN first
        ELSE 0

\* The index of the pattern the loop returns at, 0 when it runs to its end.
firstValidSelector(html, platform, searchTerms) ==
    LET n == Min(Len(html.cands), numSelectors(platform))
        ok == {i \in 1..n : html.cands[i] # 0
                            /\ validPrice(html.cands[i], platform, searchTerms)}
    IN  IF ok = {} THEN 0 ELSE CHOOSE i \in ok : \A j \in ok : i <= j

\* titleMatch ? titleMatch[1].trim() : `${searchTerms} - Amazon Result`
resultTitle(html, platform, searchTerms) ==
    IF html.titleMatch # <<>> THEN trim(html.titleMatch)
    ELSE searchTerms \o (IF platform = s_amazon
                         THEN <<" ","-"," ","A","m","a","z","o","n"," ","R","e","s","u","l","t">>
                         ELSE <<" ","-"," ","e","B","a","y"," ","R","e","s","u","l","t">>)

\* extractFirstResultWithTitle, main.js 666-911: {title, price} for amazon and
\* ebay, the bare price for walmart, bestbuy and target, null otherwise.
extractFirstResultWithTitle(html, platform, searchTerms) ==
    LET i == firstValidSelector(html, platform, searchTerms) IN
    IF i = 0 THEN Null
    ELSE IF platform \in {s_amazon, s_ebay}
    THEN Obj(resultTitle(html, platform, searchTerms), html.cands[i])
    ELSE Num(html.cands[i])

\* extractedResult && extractedResult.price > 0: a bare number has no .price
hasPositivePrice(v) == v.kind = "object" /\ v.price > 0

(***************************************************************************)
(* extractPriceFromHtml, main.js 1037-1163: every match of every pattern   *)
(* within 50..1500 is collected, and one of them selected.                 *)
(***************************************************************************)
SetMin(S) == CHOOSE x \in S : \A y \in S : x <= y

extractPriceFromHtml(html, url) ==
    LET known == includes(url, <<"a","m","a","z","o","n",".">>) \/ includes(url, <<"e","b","a","y",".">>)
        prices == IF known
                  THEN {p \in {html.cands[i] : i \in 1..Len(html.cands)} :
                            p >= 50 /\ p <= 1500}
                  ELSE {}
        within(lo, hi) == {p \in prices : p >= lo /\ p <= hi}
        prefer(S) == IF S # {} THEN SetMin(S) ELSE SetMin(prices)
    IN  IF prices = {} THEN Null
        ELSE IF includes(url, <<"i","p","h","o","n","e">>) \/ includes(url, <<"i","P","h","o","n","e">>)
        THEN IF includes(url, <<"1","2","8","g","b">>) \/ includes(url, <<"1","2","8","G","B">>)
             THEN Num(prefer(within(300, 700)))
             ELSE Num(prefer(within(200, 900)))
        ELSE Num(SetMin(prices))

\* extractedPrice && extractedPrice > 0
isPositiveNumber(v) == v.kind = "number" /\ v.n > 0

(***************************************************************************)
(* RateLimiter.waitIfNeeded, main.js 343-360.                              *)
(***************************************************************************)
\* (this.requests.get(key) || []).filter(time => now - time < this.windowMs)
recentRequests(reqs, key, t) == SelectOlder(MapGet(reqs, key, <<>>), t, windowMs)

\* recentRequests.length >= this.maxRequests
rateLimitReached(recent) == Len(recent) >= maxRequests

\* this.windowMs - (now - oldestRequest), with
\* oldestRequest = Math.min(...recentRequests)
waitTime(recent, t) ==
    LET oldestRequest == CHOOSE x \in {recent[i] : i \in 1..Len(recent)} :
                             \A i \in 1..Len(recent) : x <= recent[i]
    IN  windowMs - (t - oldestRequest)

\* recentRequests.push(now); this.requests.set(key, recentRequests)
\* `t` is the `now` read on entry, also when the caller has waited.
recordRequest(reqs, key, recent, t) == MapSet(reqs, key, Append(recent, t))

\* The history of returns of waitIfNeeded(key): the return happens at `at`.
\* Returns older than one window before `at` are dropped from the history.
noteAdmission(adm, key, at) ==
    MapSet(adm, key, Append(SelectOlder(MapGet(adm, key, <<>>), at, windowMs), at))

(***************************************************************************)
(* The machine state as one record, so that the synchronous part of a      *)
(* call (everything up to its next await) is one function on it.           *)
(***************************************************************************)
Machine ==
    [now |-> now, requests |-> requests, priceCache |-> priceCache,
     products |-> products, tasks |-> tasks, admitted |-> admitted,
     httpLog |-> httpLog, cacheStored |-> cacheStored,
     lastResolved |-> lastResolved, lastReply |-> lastReply, replies |-> replies,
     sent |-> <<>>]

Becomes(st) ==
    /\ requests' = st.requests
    /\ priceCache' = st.priceCache
    /\ products' = st.products
    /\ tasks' = st.tasks
    /\ admitted' = st.admitted
    /\ httpLog' = st.httpLog
    /\ cacheStored' = st.cacheStored
    /\ lastResolved' = st.lastResolved
    /\ lastReply' = st.lastReply
    /\ replies' = st.replies
    /\ sent' = st.sent
    /\ UNCHANGED <<settings, autoCheckTimer>>

\* A frame suspends at an await / is finished.
park(st, task) == [st EXCEPT !.tasks = MapSet(st.tasks, task.id, task)]
drop(st, task) == [st EXCEPT !.tasks = MapDel(st.tasks, task.id)]

\* mainWindow.webContents.send(channel, payload)
send(st, channel, payload) ==
    [st EXCEPT !.sent = Append(@, [channel |-> channel, payload |-> payload])]

NoScrape == [fn |-> "none"]
\* The frame of a call: its argument, its local `products` (read from the
\* store on entry), its loop index and results, the scrape it awaits; and, as
\* history, the store as it was at the call.
Frame(id, kind, data, store) ==
    [id |-> id, kind |-> kind, data |-> data, products |-> store, i |-> 0,
     platformResults |-> <<>>, scrape |-> NoScrape, atRequest |-> store]

(***************************************************************************)
(* scrapeFirstResultPrice (main.js 366-525) and scrapePrice (527-664).     *)
(***************************************************************************)
\* const cacheKey = `${platform}-${searchTerms}` / const cacheKey = url
cacheKey(sc) ==
    IF sc.fn = "scrapeFirstResultPrice" THEN sc.platform \o <<"-">> \o sc.arg ELSE sc.arg

\* The lookup with the rate window taken for the time to live.
cacheHitWithinWindow(cache, key, t) ==
    key \in DOMAIN cache /\ t - cache[key].timestamp < windowMs

\* cachedResult && (Date.now() - cachedResult.timestamp) < 300000
cacheHit(cache, key, t) == key \in DOMAIN cache /\ t - cache[key].timestamp < cacheTtl

\* priceCache.set(cacheKey, {title, price, timestamp: Date.now()})
cacheEntry(sc, v, t) ==
    IF sc.fn = "scrapeFirstResultPrice"
    THEN [title |-> v.title, price |-> v.price, timestamp |-> t]
    ELSE [price |-> v.n, timestamp |-> t]

\* resolve({title: cachedResult.title, price: cachedResult.price}) / resolve(cachedResult.price)
cachedValue(sc, e) ==
    IF sc.fn = "scrapeFirstResultPrice" THEN Obj(e.title, e.price) ELSE Num(e.price)

fallbackValue(sc) ==
    IF sc.fn = "scrapeFirstResultPrice"
    THEN getSearchFallbackPrice(sc.arg, sc.platform)
    ELSE getFallbackPrice(sc.arg)

extractedValue(sc, html) ==
    IF sc.fn = "scrapeFirstResultPrice"
    THEN extractFirstResultWithTitle(html, sc.platform, sc.arg)
    ELSE extractPriceFromHtml(html, sc.arg)

usable(sc, v) ==
    IF sc.fn = "scrapeFirstResultPrice" THEN hasPositivePrice(v) ELSE isPositiveNumber(v)

\* The request leaves: httpModule.request(options, ...); req.end().  Noted per
\* cache key: when it left, when its call was made, when the call that issued
\* the previous request for the key was made (-1: none), and when the entry of
\* the key was last stored in the cache (-1: never).
noteRequest(st, sc) ==
    LET key == cacheKey(sc) IN
    [st EXCEPT !.httpLog = MapSet(@, key,
        [at |-> st.now, calledAt |-> sc.calledAt,
         prevCalledAt |-> IF key \in DOMAIN st.httpLog
                          THEN st.httpLog[key].calledAt ELSE -1,
         prevStore |-> MapGet(st.cacheStored, key, -1)])]

noteResolved(st, sc, v, via) ==
    [st EXCEPT !.lastResolved =
        [fn |-> sc.fn, platform |-> sc.platform, arg |-> sc.arg, value |-> v,
         via |-> via, attempts |-> sc.attempts]]

storeInCache(st, sc, v) ==
    [st EXCEPT !.priceCache = MapSet(@, cacheKey(sc), cacheEntry(sc, v, st.now)),
               !.cacheStored = MapSet(@, cacheKey(sc), st.now)]

\* A call of scrapeFirstResultPrice(searchTerms, platform) made at time t.
ScrapeFirst(searchTerms, platform, t) ==
    [fn |-> "scrapeFirstResultPrice", arg |-> searchTerms, platform |-> platform,
     defined |-> TRUE, pc |-> "start", t |-> t, recent |-> <<>>, wakeAt |-> 0,
     calledAt |-> t, attempts |-> 0]

\* A call of scrapePrice(product.url) made at time t; the rate-limit key is
\* urlObj.hostname.  A product without a url property passes undefined.
ScrapeUrl(product, t) ==
    IF "url" \in DOMAIN product
    THEN [fn |-> "scrapePrice", arg |-> product.url, platform |-> hostname(product.url),
          defined |-> TRUE, pc |-> "start", t |-> t, recent |-> <<>>, wakeAt |-> 0,
          calledAt |-> t, attempts |-> 0]
    ELSE [fn |-> "scrapePrice", arg |-> <<>>, platform |-> <<>>,
          defined |-> FALSE, pc |-> "start", t |-> t, recent |-> <<>>, wakeAt |-> 0,
          calledAt |-> t, attempts |-> 0]

\* waitIfNeeded returns: the entry time t is recorded, at time st.now.
admit(st, key, recent, t) ==
    [st EXCEPT !.requests = recordRequest(@, key, recent, t),
               !.admitted = noteAdmission(@, key, st.now)]

(***************************************************************************)
(* The product records and the check of one product.                       *)
(***************************************************************************)
Undefined == [kind |-> "undefined"]
NonNumeric == [kind |-> "string"]

\* JavaScript truthiness and isNaN of a target price.
truthy(x) == (x.kind = "number" /\ x.n # 0) \/ x.kind = "string"
isNaN(x) == x.kind \in {"string", "undefined"}

\* (str || "").toLowerCase().replace(/[^a-z0-9]/g, '')
normalize(str) == stripNonAlnum(toLowerCase(str))

searchTermsOf(p) == IF "searchTerms" \in DOMAIN p THEN p.searchTerms ELSE <<>>

\* The duplicate check without normalization: exact matches only.
isDuplicateExact(prods, searchTerms) ==
    \E k \in 1..Len(prods) :
        "searchTerms" \in DOMAIN prods[k] /\ prods[k].searchTerms = searchTerms

\* products.some(p => p.searchTerms === new || normalize(p.searchTerms) === normalize(new))
isDuplicate(prods, searchTerms) ==
    \E k \in 1..Len(prods) :
        \/ ("searchTerms" \in DOMAIN prods[k] /\ prods[k].searchTerms = searchTerms)
        \/ normalize(searchTermsOf(prods[k])) = normalize(searchTerms)

\* The validation of add-product, main.js 1311-1363: the error, "" when none.
addProductError(prods, data) ==
    IF data.kind # "object" THEN "Invalid product data"
    ELSE IF data.searchTerms = <<>> \/ data.name = <<>>
    THEN "Missing required fields: search terms and product name"
    ELSE IF s_amazon \notin data.platforms /\ s_ebay \notin data.platforms
    THEN "Please select at least one platform to search"
    ELSE IF truthy(data.targetPrice)
            /\ (isNaN(data.targetPrice) \/ data.targetPrice.n <= 0)
    THEN "Target price must be a valid number greater than 0"
    ELSE IF Len(prods) >= maxProductsFree
    THEN "Free version limited to 3 products. Upgrade to Pro for unlimited!"
    ELSE IF isDuplicate(prods, data.searchTerms)
    THEN "These exact search terms are already being monitored. Try different search terms."
    ELSE ""

\* The reduction that forgets the price of the result it selects.
bestResultUnpriced(results) == [Head(results) EXCEPT !.price = 0]

\* platformResults.reduce((best, current) => current.price < best.price ? current : best)
RECURSIVE reduceBest(_, _)
reduceBest(best, rest) ==
    IF rest = <<>> THEN best
    ELSE reduceBest(IF Head(rest).price < best.price THEN Head(rest) ELSE best, Tail(rest))
bestResult(results) == reduceBest(Head(results), Tail(results))

\* newProduct of add-product, main.js 1413-1431 (the url fields, which no
\* handler reads back, are left out; id is Date.now().toString()).
newSearchProduct(data, results, t) ==
    LET best == bestResult(results) IN
    [id |-> t, name |-> data.name, searchTerms |-> data.searchTerms,
     platforms |-> data.platforms,
     targetPrice |-> IF truthy(data.targetPrice) THEN data.targetPrice ELSE Null,
     currentPrice |-> best.price, bestPrice |-> best.price,
     platformResults |-> results,
     priceHistory |-> <<[price |-> best.price, platform |-> best.platform,
                         timestamp |-> t, dropNotified |-> FALSE,
                         targetNotified |-> FALSE]>>,
     lastChecked |-> t, primaryPlatform |-> best.platform,
     recorded |-> <<[price |-> best.price, platform |-> best.platform,
                     timestamp |-> t, dropNotified |-> FALSE,
                     targetNotified |-> FALSE]>>]

\* newProduct of test-add-product / test-add-ebay-product, main.js 1594-1607.
newTestProduct(url, targetPrice, scrapedPrice, t) ==
    [id |-> t, name |-> "Apple iPhone 13 Mini 128GB Unlocked", url |-> url,
     targetPrice |-> Num(targetPrice), currentPrice |-> scrapedPrice,
     priceHistory |-> <<[price |-> scrapedPrice, timestamp |-> t,
                         dropNotified |-> FALSE, targetNotified |-> FALSE]>>,
     lastChecked |-> t,
     recorded |-> <<[price |-> scrapedPrice, timestamp |-> t,
                     dropNotified |-> FALSE, targetNotified |-> FALSE]>>]

\* products.findIndex(p => p.url === testProduct.url); splice(existingIndex, 1)
RECURSIVE spliceFirstWithUrl(_, _)
spliceFirstWithUrl(prods, url) ==
    IF prods = <<>> THEN <<>>
    ELSE IF "url" \in DOMAIN Head(prods) /\ Head(prods).url = url THEN Tail(prods)
    ELSE <<Head(prods)>> \o spliceFirstWithUrl(Tail(prods), url)

\* products.filter(p => p.id !== productId)
RECURSIVE withoutId(_, _)
withoutId(prods, id) ==
    IF prods = <<>> THEN <<>>
    ELSE IF Head(prods).id = id THEN withoutId(Tail(prods), id)
    ELSE <<Head(prods)>> \o withoutId(Tail(prods), id)

\* The previous price taken from the first history entry.
firstPrice(product) ==
    IF Len(product.priceHistory) > 0 THEN Num(product.priceHistory[1].price) ELSE Null

\* previousPrice: the price of the last history entry, or null
previousPrice(product) ==
    IF Len(product.priceHistory) > 0
    THEN Num(product.priceHistory[Len(product.priceHistory)].price)
    ELSE Null

\* previousPrice && currentPrice < previousPrice && dropPercent >= threshold,
\* with dropPercent = ((previousPrice - currentPrice) / previousPrice) * 100
priceDropped(previous, currentPrice) ==
    /\ truthy(previous)
    /\ currentPrice < previous.n
    /\ (previous.n - currentPrice) * 100 >= priceDropThreshold * previous.n

\* product.targetPrice && currentPrice <= product.targetPrice
targetReached(product, currentPrice) ==
    truthy(product.targetPrice) /\ currentPrice <= product.targetPrice.n

\* The slice taken from the front: the first 100 entries are kept.
keepFirst(hist) ==
    IF Len(hist) > maxHistory THEN SubSeq(hist, 1, maxHistory) ELSE hist

\* priceHistory.slice(-100) when longer than 100
keepLast(hist) ==
    IF Len(hist) > maxHistory
    THEN SubSeq(hist, Len(hist) - maxHistory + 1, Len(hist))
    ELSE hist

\* The body of the loop of checkAllPrices for one product, main.js 259-296.
\* The two notifications sent are noted in the history entry, and every
\* entry ever pushed is noted in `recorded`.
recordPrice(product, currentPrice, t) ==
    LET entry == [price |-> currentPrice, timestamp |-> t,
                  dropNotified |-> priceDropped(previousPrice(product), currentPrice),
                  targetNotified |-> targetReached(product, currentPrice)]
    IN  [product EXCEPT !.currentPrice = currentPrice,
                        !.lastChecked = t,
                        !.priceHistory = keepLast(Append(@, entry)),
                        !.recorded = Append(@, entry)]

\* The value an ipc handler returns, noted with the request, the store as it
\* was at the request and the store as it is at the return.
reply(st, task, success, error, product) ==
    [st EXCEPT !.lastReply = [handler |-> task.kind, id |-> task.id,
                              request |-> task.data, atRequest |-> task.atRequest,
                              success |-> success, error |-> error,
                              product |-> product, after |-> st.products],
               !.replies = @ + 1]

(***************************************************************************)
(* The asynchronous calls, each run from a resumption to its next await.   *)
(***************************************************************************)
RECURSIVE enterScrape(_, _, _)
RECURSIVE afterAdmission(_, _)
RECURSIVE resume(_, _, _, _)
RECURSIVE addProductResume(_, _, _)
RECURSIVE checkResume(_, _, _)

\* Entry of scrapeFirstResultPrice / scrapePrice up to `await waitIfNeeded`.
\* scrapePrice(undefined) throws in `new URL(url)` and again, inside its catch,
\* in getFallbackPrice(url): resolve is never called.
enterScrape(st, task, sc) ==
    IF ~sc.defined
    THEN park(st, [task EXCEPT !.scrape = [sc EXCEPT !.pc = "never"]])
    ELSE LET recent == recentRequests(st.requests, sc.platform, st.now) IN
         IF rateLimitReached(recent)
         THEN park(st, [task EXCEPT !.scrape =
                           [sc EXCEPT !.pc = "rlwait", !.recent = recent,
                                      !.wakeAt = st.now + waitTime(recent, st.now)]])
         ELSE afterAdmission(admit(st, sc.platform, recent, st.now),
                             [task EXCEPT !.scrape = sc])

\* From the return of waitIfNeeded to req.end(): platform check, cache lookup.
afterAdmission(st, task) ==
    LET sc == task.scrape
        key == cacheKey(sc)
    IN  IF sc.fn = "scrapeFirstResultPrice" /\ sc.platform \notin SupportedPlatforms
        THEN resume(st, task, Null, "unsupported")
        ELSE IF cacheHit(st.priceCache, key, st.now)
        THEN resume(st, task, cachedValue(sc, st.priceCache[key]), "cache")
        ELSE park(noteRequest(st, sc),
                  [task EXCEPT !.scrape = [sc EXCEPT !.pc = "inflight",
                                                     !.attempts = @ + 1]])

\* The promise of the scrape resolves with `value`; its awaiter continues.
resume(st, task, value, via) ==
    LET st1 == noteResolved(st, task.scrape, value, via) IN
    CASE task.kind = "acquire" -> drop(st1, task)
      [] task.kind = "add-product" -> addProductResume(st1, task, value)
      [] task.kind \in {"test-add-product", "test-add-ebay-product"} ->
            \* if (!scrapedPrice) return {success: false, ...}
            IF value.kind # "number" \/ value.n = 0
            THEN reply(drop(st1, task), task, FALSE, task.data.error, Null)
            ELSE LET p == newTestProduct(task.data.url, task.data.targetPrice,
                                         value.n, st1.now)
                 IN  reply(send([drop(st1, task) EXCEPT !.products = Append(task.products, p)],
                                "product-added", p),
                           task, TRUE, "", p)
      [] task.kind = "checkAllPrices" -> checkResume(st1, task, value)

\* add-product after `await scrapeFirstResultPrice(...)`, main.js 1373-1443.
addProductResume(st, task, value) ==
    LET platform == task.scrape.platform
        results ==
            IF value.kind = "object" /\ value.price # 0
            THEN Append(task.platformResults,
                        [platform |-> platform, title |-> value.title,
                         price |-> value.price, lastChecked |-> st.now])
            ELSE task.platformResults
        t2 == [task EXCEPT !.platformResults = results]
    IN  IF platform = s_amazon /\ s_ebay \in task.data.platforms
        THEN enterScrape(st, t2, ScrapeFirst(task.data.searchTerms, s_ebay, st.now))
        ELSE IF results = <<>>
        THEN reply(drop(st, t2), task, FALSE,
                   "Could not find prices on any selected platform. Please try different search terms.",
                   Null)
        ELSE LET p == newSearchProduct(task.data, results, st.now) IN
             reply(send([drop(st, t2) EXCEPT !.products = Append(task.products, p)],
                        "product-added", p),
                   task, TRUE, "", p)

\* checkAllPrices after `await scrapePrice(product.url)`, main.js 259-304.
checkResume(st, task, value) ==
    LET checked ==
            \* if (currentPrice !== null) { ... }
            IF value.kind = "null" THEN task.products
            ELSE [task.products EXCEPT ![task.i] = recordPrice(@, value.n, st.now)]
        t2 == [task EXCEPT !.products = checked, !.i = @ + 1]
    IN  IF t2.i <= Len(checked)
        THEN enterScrape(st, t2, ScrapeUrl(checked[t2.i], st.now))
        ELSE send([drop(st, t2) EXCEPT !.products = checked],
                  "checking-prices-completed", Null)

\* The response handlers with the fallback value written to the cache.
respondCachingFallback(st, task, ok, html) ==
    LET sc == task.scrape
        v == extractedValue(sc, html)
    IN  IF ok /\ usable(sc, v)
        THEN resume(storeInCache(st, sc, v), task, v, "extracted")
        ELSE resume(storeInCache(st, sc, fallbackValue(sc)), task,
                    fallbackValue(sc), "fallback")

\* A response (or the failure of the request) arrives for a request in flight.
\* ok: statusCode 200 and the body read; otherwise one of non-200 status,
\* req timeout (15 s), req 'error', res 'error': all four call the fallback.
respond(st, task, ok, html) ==
    LET sc == task.scrape
        v == extractedValue(sc, html)
    IN  IF ok /\ usable(sc, v)
        THEN resume(storeInCache(st, sc, v), task, v, "extracted")
        ELSE resume(st, task, fallbackValue(sc), "fallback")

(***************************************************************************)
(* scheduleAutoCheck, main.js 1703-1728.  A setting is undefined, a number *)
(* (whole), a string that is not numeric, or a boolean.                    *)
(***************************************************************************)
False == [kind |-> "boolean", b |-> FALSE]
NaN == [kind |-> "NaN"]
NoSettings == [checkInterval |-> Undefined, autoCheck |-> Undefined]

\* parseInt(x, 10) of a whole number or of a string without a leading number
parseInt(x) == IF x.kind = "number" THEN x ELSE NaN

\* Math.max(1, x): NaN when x is NaN
mathMax1(x) == IF x.kind = "NaN" THEN NaN ELSE Num(Max(1, x.n))

\* Math.max(1, parseInt(settings.checkInterval || (APP_CONFIG.checkInterval / 60000), 10))
intervalMinutes(s) ==
    mathMax1(parseInt(IF truthy(s.checkInterval) THEN s.checkInterval
                      ELSE Num(checkInterval \div 60000)))

\* setInterval(callback, intervalMinutes * 60 * 1000): a delay that is NaN or
\* above 2^31 - 1 is set to 1 ms by the timers of Node (intervalMinutes is at
\* least 1; a product above 2^31 - 1 is recognised without being computed).
timeoutMax == 2147483647
setIntervalPeriod(minutes) ==
    IF minutes.kind = "NaN" \/ minutes.n > timeoutMax \div 60000
    THEN 1
    ELSE minutes.n * 60 * 1000

\* No timer set; `fired` and `starts` count, as history, the runs of the
\* timer's callback and the starts of the application.
NoTimer == [active |-> FALSE, period |-> 0, nextAt |-> 0, from |-> NoSettings,
            fired |-> 0, starts |-> 0]

\* scheduleAutoCheck() at time t with the stored settings s: the timer there
\* was is cleared; unless settings.autoCheck === false a new one is set.
scheduleAutoCheck(s, t, timer) ==
    LET period == setIntervalPeriod(intervalMinutes(s)) IN
    IF s.autoCheck = False
    THEN [timer EXCEPT !.active = FALSE, !.from = s, !.starts = @ + 1]
    ELSE [timer EXCEPT !.active = TRUE, !.period = period, !.nextAt = t + period,
                       !.from = s, !.starts = @ + 1]

(***************************************************************************)
(* The initial state: the app has started, the store is empty.             *)
(***************************************************************************)
NoResolve == [fn |-> "none", platform |-> <<>>, arg |-> <<>>, value |-> Null,
              via |-> "none", attempts |-> 0]
NoReply == [handler |-> "none", id |-> -1, request |-> Null, atRequest |-> <<>>,
            success |-> FALSE, error |-> "", product |-> Null, after |-> <<>>]

Init ==
    /\ now = 0
    /\ requests = EmptyMap
    /\ priceCache = EmptyMap
    /\ products = <<>>
    /\ tasks = EmptyMap
    /\ ops = 0
    /\ rlWaiters = {}
    /\ rlCalls = 0
    /\ admitted = EmptyMap
    /\ httpLog = EmptyMap
    /\ cacheStored = EmptyMap
    /\ lastResolved = NoResolve
    /\ lastReply = NoReply
    /\ replies = 0
    /\ sent = <<>>
    /\ settings = NoSettings
    /\ autoCheckTimer = scheduleAutoCheck(NoSettings, 0, NoTimer)

(***************************************************************************)
(* SpecRL: rateLimiter.waitIfNeeded(key) called directly, under a          *)
(* simulated clock.                                                        *)
(***************************************************************************)
RLKeys == {s_amazon, s_ebay}

\* waitIfNeeded(key) finds fewer than maxRequests recent requests and returns.
RLCallPasses(key) ==
    LET recent == recentRequests(requests, key, now) IN
    /\ rlCalls < MaxRLCalls
    /\ ~rateLimitReached(recent)
    /\ requests' = recordRequest(requests, key, recent, now)
    /\ admitted' = noteAdmission(admitted, key, now)
    /\ rlCalls' = rlCalls + 1
    /\ UNCHANGED <<now, priceCache, products, tasks, ops, rlWaiters, httpLog,
                   cacheStored, lastResolved, lastReply, replies,
                   sent, settings, autoCheckTimer>>

\* waitIfNeeded(key) finds the limit reached and awaits its setTimeout.
RLCallWaits(key) ==
    LET recent == recentRequests(requests, key, now) IN
    /\ rlCalls < MaxRLCalls
    /\ rateLimitReached(recent)
    /\ Cardinality(rlWaiters) < MaxRLWaiters
    /\ rlWaiters' = rlWaiters \cup
          {[id |-> rlCalls, key |-> key, now |-> now, recent |-> recent,
            wakeAt |-> now + waitTime(recent, now)]}
    /\ rlCalls' = rlCalls + 1
    /\ UNCHANGED <<now, requests, priceCache, products, tasks, ops, admitted,
                   httpLog, cacheStored, lastResolved, lastReply, replies,
                   sent, settings, autoCheckTimer>>

\* The timer of a waiting call fires: it pushes the `now` it read on entry
\* onto the list it filtered on entry, stores that list, and returns.
RLWake(w) ==
    /\ w \in rlWaiters
    /\ now >= w.wakeAt
    /\ requests' = recordRequest(requests, w.key, w.recent, w.now)
    /\ admitted' = noteAdmission(admitted, w.key, now)
    /\ rlWaiters' = rlWaiters \ {w}
    /\ UNCHANGED <<now, priceCache, products, tasks, ops, rlCalls, httpLog,
                   cacheStored, lastResolved, lastReply, replies,
                   sent, settings, autoCheckTimer>>

TickRL ==
    /\ now + TickMs \in Clock
    /\ \A w \in rlWaiters : now + TickMs <= w.wakeAt
    /\ now' = now + TickMs
    /\ UNCHANGED <<requests, priceCache, products, tasks, ops, rlWaiters, rlCalls,
                   admitted, httpLog, cacheStored, lastResolved, lastReply, replies,
                   sent, settings, autoCheckTimer>>

NextRL ==
    \/ \E key \in RLKeys : RLCallPasses(key)
    \/ \E key \in RLKeys : RLCallWaits(key)
    \/ \E w \in rlWaiters : RLWake(w)
    \/ TickRL

SpecRL == Init /\ [][NextRL]_vars

(* C1: for every key, the number of returns of waitIfNeeded(key) inside any *)
(* window of length windowMs is at most maxRequests.  `admitted` keeps, at  *)
(* each return, the returns of the window that ends with it.                *)
C1_AtMostMaxPerWindow ==
    \A key \in RLKeys : Len(MapGet(admitted, key, <<>>)) <= maxRequests

(***************************************************************************)
(* The steps every asynchronous call can take once it is suspended.        *)
(***************************************************************************)
Pending == DOMAIN tasks
pcOf(id) == tasks[id].scrape.pc

\* The setTimeout of waitIfNeeded fires for a suspended scrape: the stale
\* list is stored and the scrape goes on with its cache lookup.
RateLimitWake(id) ==
    /\ id \in Pending
    /\ pcOf(id) = "rlwait"
    /\ now >= tasks[id].scrape.wakeAt
    /\ LET sc == tasks[id].scrape IN
       Becomes(afterAdmission(admit(Machine, sc.platform, sc.recent, sc.t), tasks[id]))
    /\ UNCHANGED <<now, ops, rlWaiters, rlCalls>>

\* res.on('end') with statusCode 200 and body `html`.
Response200(id, html) ==
    /\ id \in Pending
    /\ pcOf(id) = "inflight"
    /\ Becomes(respond(Machine, tasks[id], TRUE, html))
    /\ UNCHANGED <<now, ops, rlWaiters, rlCalls>>

\* Non-200 status, req 'timeout', req 'error' or res 'error'.
RequestFails(id) ==
    /\ id \in Pending
    /\ pcOf(id) = "inflight"
    /\ Becomes(respond(Machine, tasks[id], FALSE, Html(<<>>, <<>>)))
    /\ UNCHANGED <<now, ops, rlWaiters, rlCalls>>

\* Time passes, up to a later instant of the simulated clock (the instants
\* at which a rate window or a cache entry can expire); a timer of
\* waitIfNeeded fires when it is due, never later.
Instants(windows, epochs) ==
    {w * windowMs + e * cacheTtl : w \in 0..windows, e \in 0..epochs}
Tick(t) ==
    /\ t > now
    /\ \A id \in Pending : pcOf(id) = "rlwait" => t <= tasks[id].scrape.wakeAt
    /\ now' = t
    /\ UNCHANGED <<requests, priceCache, products, tasks, ops, rlWaiters, rlCalls,
                   admitted, httpLog, cacheStored, lastResolved, lastReply, replies,
                   sent, settings, autoCheckTimer>>

(***************************************************************************)
(* SpecAcquire: scrapeFirstResultPrice(searchTerms, platform) called       *)
(* directly, calls overlapping, every HTTP outcome.                        *)
(***************************************************************************)
s_etsy == <<"e","t","s","y">>
AcquirePlatforms == {s_amazon, s_walmart, s_etsy}
AcquireQueries == {<<"t","v">>}

\* Response bodies: nothing matches; a price with a title; a price whose
\* title capture is one blank.
AcquireHtmls ==
    {Html(<<>>, <<>>),
     Html(<<999>>, <<"T","V">>),
     Html(<<999>>, <<" ">>)}

\* The calls are repeated for amazon; the other platforms are called up to
\* MaxOtherCalls times in a rate window.
callsAllowed(platform) == IF platform = s_amazon THEN MaxCalls ELSE MaxOtherCalls

Acquire(searchTerms, platform) ==
    /\ ops < MaxCalls
    /\ Len(MapGet(requests, platform, <<>>)) < callsAllowed(platform)
    /\ Cardinality(Pending) < MaxPending
    /\ Becomes(enterScrape(Machine,
                           Frame(ops, "acquire", [searchTerms |-> searchTerms,
                                                  platform |-> platform], products),
                           ScrapeFirst(searchTerms, platform, now)))
    /\ ops' = ops + 1
    /\ UNCHANGED <<now, rlWaiters, rlCalls>>

NextAcquire ==
    \/ \E q \in AcquireQueries, p \in AcquirePlatforms : Acquire(q, p)
    \/ \E id \in Pending : RateLimitWake(id)
    \/ \E id \in Pending, html \in AcquireHtmls : Response200(id, html)
    \/ \E id \in Pending : RequestFails(id)
    \/ \E t \in Instants(MaxWindows, 1) : Tick(t)

SpecAcquire == Init /\ [][NextAcquire]_vars

(* C2: for every supported platform and every query, whatever the HTTP      *)
(* outcome, scrapeFirstResultPrice resolves with an object {title, price}   *)
(* whose title is non-empty and whose price is > 0, never with null.        *)
C2_ResolvesTitleAndPrice ==
    (lastResolved.fn = "scrapeFirstResultPrice"
        /\ lastResolved.platform \in SupportedPlatforms)
    => /\ lastResolved.value.kind = "object"
       /\ lastResolved.value.title # <<>>
       /\ lastResolved.value.price > 0

(* C3, as stated: two calls of scrapeFirstResultPrice for the same pair     *)
(* made less than the cache TTL apart, one after the other or overlapping,  *)
(* issue at most one HTTP request: no request for a pair comes from a call  *)
(* made less than cacheTtl from the call of the previous request.           *)
C3_OneRequestPerTtl ==
    \A key \in DOMAIN httpLog :
        LET r == httpLog[key] IN
        r.prevCalledAt >= 0 =>
            \/ r.calledAt - r.prevCalledAt >= cacheTtl
            \/ r.prevCalledAt - r.calledAt >= cacheTtl

(* C3, amended: once a call has stored a validated extraction for a pair,   *)
(* no call for the pair whose cache lookup comes less than cacheTtl after   *)
(* that store issues an HTTP request.                                       *)
C3_NoRequestWhileCached ==
    \A key \in DOMAIN httpLog :
        LET r == httpLog[key] IN
        r.prevStore >= 0 => r.at - r.prevStore >= cacheTtl

\* C3, witness: a call for a pair is answered from the cache after exactly
\* one request for the pair has been issued.
C3_ServedFromCache ==
    /\ lastResolved.fn = "scrapeFirstResultPrice"
    /\ lastResolved.via = "cache"
    /\ cacheKey(lastResolved) \in DOMAIN httpLog
    /\ httpLog[cacheKey(lastResolved)].prevCalledAt = -1

(* C4: on a cache miss the fallback price is returned only after 3 fetch    *)
(* attempts (the second after 1 s, the third after 2 s more) have failed:   *)
(* a call answered with the fallback has made 3 attempts.                   *)
C4_FallbackAfterThreeAttempts ==
    lastResolved.via = "fallback" => lastResolved.attempts = 3

(***************************************************************************)
(* The ipc handlers and checkAllPrices, up to their first await.           *)
(***************************************************************************)
\* add-product with the rate-limit admission made before the validation.
addProductAdmitFirst(st, id, data) ==
    LET task == Frame(id, "add-product", data, st.products)
        err == addProductError(task.products, data)
        admitted1 == admit(st, s_amazon,
                           recentRequests(st.requests, s_amazon, st.now), st.now)
    IN  IF err # "" THEN reply(admitted1, task, FALSE, err, Null)
        ELSE enterScrape(st, task,
                         ScrapeFirst(data.searchTerms,
                                     IF s_amazon \in data.platforms THEN s_amazon ELSE s_ebay,
                                     st.now))

\* ipcMain.handle('add-product'), main.js 1304-1372.
addProduct(st, id, data) ==
    LET task == Frame(id, "add-product", data, st.products)
        err == addProductError(task.products, data)
    IN  IF err # "" THEN reply(st, task, FALSE, err, Null)
        ELSE enterScrape(st, task,
                         ScrapeFirst(data.searchTerms,
                                     IF s_amazon \in data.platforms THEN s_amazon ELSE s_ebay,
                                     st.now))

\* testProduct of test-add-product (main.js 1566-1570) and of
\* test-add-ebay-product (main.js 1623-1627).
testAmazonProduct ==
    [url |-> testAmazonUrl, targetPrice |-> 400,
     error |-> "Could not scrape price from Amazon. This may be due to anti-bot protection or network issues."]
testEbayProduct ==
    [url |-> testEbayUrl, targetPrice |-> 370,
     error |-> "Could not scrape price from eBay. This may be due to anti-bot protection or network issues."]

\* ipcMain.handle('test-add-product') / ('test-add-ebay-product') up to
\* `await scrapePrice(testProduct.url)`.
testAdd(st, id, handler, testProduct) ==
    enterScrape(st,
                [Frame(id, handler, testProduct, st.products) EXCEPT
                    !.products = spliceFirstWithUrl(@, testProduct.url)],
                ScrapeUrl(testProduct, st.now))

\* checkAllPrices, main.js 246-259.
checkAllPrices(st, id) ==
    IF st.products = <<>> THEN st
    ELSE enterScrape(send(st, "checking-prices-started", Null),
                     [Frame(id, "checkAllPrices", Null, st.products) EXCEPT !.i = 1],
                     ScrapeUrl(st.products[1], st.now))

\* ipcMain.handle('remove-product'), main.js 1451-1456.
removeProduct(st, id, productId) ==
    reply([st EXCEPT !.products = withoutId(@, productId)],
          Frame(id, "remove-product", Num(productId), st.products), TRUE, "", Null)

\* ipcMain.handle('clear-all-products'), main.js 1459-1463.
clearAllProducts(st, id) ==
    reply([st EXCEPT !.products = <<>>],
          Frame(id, "clear-all-products", Null, st.products), TRUE, "", Null)

\* A handler can be invoked (the timer of scheduleAutoCheck can fire); the
\* invocation is counted.
CanInvoke == ops < MaxOps /\ Cardinality(Pending) < MaxRunning
Invoked == ops' = ops + 1 /\ UNCHANGED <<now, rlWaiters, rlCalls>>

AddProduct(data) ==
    /\ CanInvoke
    /\ Becomes(addProduct(Machine, ops, data))
    /\ Invoked

TestAddProduct ==
    /\ CanInvoke
    /\ Becomes(testAdd(Machine, ops, "test-add-product", testAmazonProduct))
    /\ Invoked

TestAddEbayProduct ==
    /\ CanInvoke
    /\ Becomes(testAdd(Machine, ops, "test-add-ebay-product", testEbayProduct))
    /\ Invoked

CheckAllPrices ==
    /\ CanInvoke
    /\ Becomes(checkAllPrices(Machine, ops))
    /\ Invoked

RemoveProduct(productId) ==
    /\ CanInvoke
    /\ Becomes(removeProduct(Machine, ops, productId))
    /\ Invoked

ClearAllProducts ==
    /\ CanInvoke
    /\ Becomes(clearAllProducts(Machine, ops))
    /\ Invoked

(***************************************************************************)
(* Spec: the renderer invokes the handlers, prices are checked, responses  *)
(* arrive, time passes.  Fewer than maxRequests + 1 invocations are made,  *)
(* and an invocation scrapes a rate-limit key at most once, so no scrape   *)
(* is suspended in waitIfNeeded here (NoScrapeWaits); suspended callers    *)
(* are in SpecRL and SpecAcquire.                                          *)
(***************************************************************************)
ProductData(searchTerms, name, platforms, targetPrice) ==
    [kind |-> "object", searchTerms |-> searchTerms, name |-> name,
     platforms |-> platforms, targetPrice |-> targetPrice]

Requests ==
    {ProductData(<<"t","v">>, <<"A">>, {s_amazon}, Undefined),
     ProductData(<<"T","V","!">>, <<"B">>, {s_amazon, s_ebay}, Num(80)),
     ProductData(<<"p","c">>, <<"C">>, {s_ebay}, Undefined)}

Htmls == {Html(<<>>, <<>>), Html(<<100>>, <<>>)}

ProductIds == {products[k].id : k \in 1..Len(products)}

Next ==
    \/ \E data \in Requests : AddProduct(data)
    \/ TestAddProduct
    \/ TestAddEbayProduct
    \/ CheckAllPrices
    \/ \E productId \in ProductIds : RemoveProduct(productId)
    \/ ClearAllProducts
    \/ \E id \in Pending, html \in Htmls : Response200(id, html)
    \/ \E id \in Pending : RequestFails(id)
    \/ \E t \in Instants(0, 1) : Tick(t)

Spec == Init /\ [][Next]_vars

NoScrapeWaits == \A id \in Pending : pcOf(id) # "rlwait"

(***************************************************************************)
(* SpecCheck: the test product is added (and added again, which replaces   *)
(* it) and its price checked again and again while the product page        *)
(* changes and cache entries expire.  The prices shown include drops of less than, of exactly and of *)
(* more than priceDropThreshold percent; a failed request gives the        *)
(* fallback price.                                                         *)
(***************************************************************************)
PageHtmls == {Html(<<p>>, <<>>) : p \in {100, 96, 95, 90, 85}}

NextCheck ==
    \/ TestAddProduct
    \/ CheckAllPrices
    \/ \E id \in Pending, html \in PageHtmls : Response200(id, html)
    \/ \E id \in Pending : RequestFails(id)
    \/ \E t \in Instants(0, MaxEpochs) : Tick(t)

SpecCheck == Init /\ [][NextCheck]_vars

(***************************************************************************)
(* SpecHistory: the app is left running.  A test product is added; the     *)
(* timer of scheduleAutoCheck fires every checkInterval (the default       *)
(* setting) and checks the prices; the network is down, so that every      *)
(* check records the fallback price.  A request fails within its 15 s      *)
(* timeout, long before the timer fires again.                             *)
(***************************************************************************)
AutoCheck ==
    /\ ops < MaxAutoChecks
    /\ Pending = {}
    /\ now' = now + checkInterval
    /\ Becomes(checkAllPrices([Machine EXCEPT !.now = now + checkInterval], ops))
    /\ ops' = ops + 1
    /\ UNCHANGED <<rlWaiters, rlCalls>>

NextHistory ==
    \/ TestAddProduct
    \/ TestAddEbayProduct
    \/ AutoCheck
    \/ \E id \in Pending : RequestFails(id)

SpecHistory == Init /\ [][NextHistory]_vars

(* C5: after any number of recorded checks of a product its priceHistory    *)
(* has at most 100 entries, and it holds the most recently recorded entries *)
(* (all of them up to 100, exactly the last 100 beyond), in the order in    *)
(* which they were recorded.                                                *)
C5_HistoryIsLast100 ==
    \A k \in 1..Len(products) :
        LET all == products[k].recorded
            n == IF Len(all) < maxHistory THEN Len(all) ELSE maxHistory
        IN  /\ Len(products[k].priceHistory) <= maxHistory
            /\ products[k].priceHistory = SubSeq(all, Len(all) - n + 1, Len(all))

\* C5, witness: more than 100 prices of a product have been recorded, the
\* history holds 100, and the oldest recorded one is no longer its first.
C5_MoreThan100Recorded ==
    \E k \in 1..Len(products) :
        /\ Len(products[k].recorded) > maxHistory
        /\ Len(products[k].priceHistory) = maxHistory
        /\ products[k].priceHistory[1] # products[k].recorded[1]

(* C6: in a check of a product the price-drop notification is sent exactly  *)
(* when the price recorded is lower than the history entry just before it   *)
(* by at least priceDropThreshold percent of that entry.                    *)
C6_DropNotifiedIffDropped ==
    \A k \in 1..Len(products) :
        LET h == products[k].priceHistory IN
        \A i \in 2..Len(h) :
            h[i].dropNotified <=>
                /\ h[i].price < h[i - 1].price
                /\ (h[i - 1].price - h[i].price) * 100 >= priceDropThreshold * h[i - 1].price

\* C6, witness: the recorded prices of a product are 100, 90, 90, 85 and the
\* notification was sent for 100 -> 90 and 90 -> 85, not for the repeated 90.
C6_Sequence100_90_90_85 ==
    \E k \in 1..Len(products) :
        LET h == products[k].priceHistory IN
        /\ Len(h) = 4
        /\ <<h[1].price, h[2].price, h[3].price, h[4].price>> = <<100, 90, 90, 85>>
        /\ <<h[2].dropNotified, h[3].dropNotified, h[4].dropNotified>> = <<TRUE, FALSE, TRUE>>

(* C7: the target-reached notification is edge-triggered: it is sent in a   *)
(* check only when the previously recorded price was above the target, not  *)
(* again while the price stays at or below the target.                      *)
C7_TargetNotifiedOnCrossing ==
    \A k \in 1..Len(products) :
        LET h == products[k].priceHistory IN
        \A i \in 2..Len(h) :
            h[i].targetNotified => h[i - 1].price > products[k].targetPrice.n

(***************************************************************************)
(* The replies of add-product, read from the last value a handler returned *)
(* (lastReply: the request, the store at the request, the store at the     *)
(* return).                                                                *)
(***************************************************************************)
duplicateError ==
    "These exact search terms are already being monitored. Try different search terms."

\* The products of a store whose query normalizes to the same string as q.
sameQuery(prods, q) ==
    {k \in 1..Len(prods) : /\ "searchTerms" \in DOMAIN prods[k]
                           /\ normalize(prods[k].searchTerms) = normalize(q)}

addProductReplied == lastReply.handler = "add-product"

\* Non-empty query and name and at least one enabled source.
hasQueryNameAndSource(data) ==
    /\ data.kind = "object"
    /\ data.searchTerms # <<>>
    /\ data.name # <<>>
    /\ (s_amazon \in data.platforms \/ s_ebay \in data.platforms)

(* C8: every add-product request with a non-empty query and name and at     *)
(* least one enabled source returns either success with a product that has  *)
(* at least one per-source result and a current price > 0 and that is then  *)
(* in the store, or success:false with a non-empty error and the store as   *)
(* it was at the request; there is no third outcome.                        *)
C8_AddProductOutcome ==
    (addProductReplied /\ hasQueryNameAndSource(lastReply.request)) =>
        \/ /\ lastReply.success
           /\ Len(lastReply.product.platformResults) >= 1
           /\ lastReply.product.currentPrice > 0
           /\ \E k \in 1..Len(lastReply.after) : lastReply.after[k] = lastReply.product
           /\ Len(lastReply.after) = Len(lastReply.atRequest) + 1
        \/ /\ ~lastReply.success
           /\ lastReply.error # ""
           /\ lastReply.product = Null
           /\ lastReply.after = lastReply.atRequest

\* C8, witness: add-product has returned success with a product found on two
\* sources, which is in the store.
C8_AddedWithProduct ==
    /\ addProductReplied
    /\ lastReply.success
    /\ Len(lastReply.product.platformResults) = 2
    /\ \E k \in 1..Len(products) : products[k] = lastReply.product

(* C9, as stated: when a product with query q is tracked, an add-product    *)
(* request whose query normalizes to the same string as q returns the       *)
(* duplicate-query error and the store still holds exactly one product with *)
(* that normalized query; the store never holds two products whose queries  *)
(* normalize to the same string.                                            *)
C9_DuplicateRejected ==
    /\ (addProductReplied /\ sameQuery(lastReply.atRequest, lastReply.request.searchTerms) # {}) =>
           /\ ~lastReply.success
           /\ lastReply.error = duplicateError
           /\ Cardinality(sameQuery(lastReply.after, lastReply.request.searchTerms)) = 1
    /\ \A k \in 1..Len(products) :
           "searchTerms" \in DOMAIN products[k] =>
               sameQuery(products, products[k].searchTerms) = {k}

(* C9, amended: the same, for a request that passes the validation of its   *)
(* fields and is made while the store holds fewer than maxProductsFree      *)
(* products (at the ceiling the request is rejected with the free-version   *)
(* limit error, before the duplicate check); in every case the request is   *)
(* rejected and the store is left as it was.                                *)
C9_DuplicateRejectedBelowCeiling ==
    /\ (addProductReplied /\ sameQuery(lastReply.atRequest, lastReply.request.searchTerms) # {}) =>
           /\ ~lastReply.success
           /\ lastReply.after = lastReply.atRequest
           /\ (/\ addProductError(<<>>, lastReply.request) = ""
               /\ Len(lastReply.atRequest) < maxProductsFree) =>
                  lastReply.error = duplicateError
           /\ Cardinality(sameQuery(lastReply.after, lastReply.request.searchTerms)) = 1
    /\ \A k \in 1..Len(products) :
           "searchTerms" \in DOMAIN products[k] =>
               sameQuery(products, products[k].searchTerms) = {k}

\* C9, witness: a request whose query differs from a tracked query but
\* normalizes to the same string has been rejected with the duplicate error.
C9_NormalizedDuplicateRejected ==
    /\ addProductReplied
    /\ lastReply.error = duplicateError
    /\ \E k \in sameQuery(lastReply.after, lastReply.request.searchTerms) :
           lastReply.after[k].searchTerms # lastReply.request.searchTerms

(* C10: after any sequence of add-product, test-add-product,                *)
(* test-add-ebay-product, remove-product, clear-all-products and checks the *)
(* store never holds more than maxProductsFree products, and an add-product *)
(* made with the count at or above the ceiling is rejected.                 *)
C10_AtMostMaxProducts ==
    /\ Len(products) <= maxProductsFree
    /\ (addProductReplied /\ Len(lastReply.atRequest) >= maxProductsFree) => ~lastReply.success

(***************************************************************************)
(* SpecReject: add-product is called with well-formed and with malformed   *)
(* requests (no data object, empty query, empty name, no source, a         *)
(* negative and a non-numeric target price), with queries already tracked  *)
(* and with the store at its ceiling, while earlier requests have filled   *)
(* the cache and the rate-limit windows.                                   *)
(***************************************************************************)
MalformedRequests ==
    {Null,
     ProductData(<<>>, <<"A">>, {s_amazon}, Undefined),
     ProductData(<<"t","v">>, <<>>, {s_amazon}, Undefined),
     ProductData(<<"t","v">>, <<"A">>, {}, Undefined),
     ProductData(<<"t","v">>, <<"A">>, {s_walmart}, Undefined),
     ProductData(<<"t","v">>, <<"A">>, {s_amazon}, Num(-5)),
     ProductData(<<"t","v">>, <<"A">>, {s_amazon}, Num(0)),
     ProductData(<<"t","v">>, <<"A">>, {s_amazon}, NonNumeric)}

NextReject ==
    \/ \E data \in Requests \cup MalformedRequests : AddProduct(data)
    \/ TestAddProduct
    \/ \E id \in Pending, html \in Htmls : Response200(id, html)
    \/ \E id \in Pending : RequestFails(id)

SpecReject == Init /\ [][NextReject]_vars

\* The reasons for which add-product rejects a request before it searches,
\* main.js 1311-1363.
rejectionErrors ==
    {"Invalid product data",
     "Missing required fields: search terms and product name",
     "Please select at least one platform to search",
     "Target price must be a valid number greater than 0",
     "Free version limited to 3 products. Upgrade to Pro for unlimited!",
     duplicateError}

rejected(r) == r.handler = "add-product" /\ ~r.success /\ r.error \in rejectionErrors

(* C11: an add-product request rejected for a validation or capacity reason *)
(* (invalid data object, missing query or name, no source, non-positive     *)
(* target price, count at the ceiling, duplicate query) leaves the product  *)
(* store, the price cache and every rate-limit window unchanged and issues  *)
(* no network request (none is sent, no call is left pending).              *)
C11_RejectionChangesNothing ==
    [][(replies' = replies + 1 /\ rejected(lastReply')) =>
          /\ products' = products
          /\ priceCache' = priceCache
          /\ requests' = requests
          /\ httpLog' = httpLog
          /\ tasks' = tasks]_vars

\* C11, witness: a request has been rejected at the ceiling while the cache
\* and a rate-limit window held entries of earlier requests.
C11_RejectedAtCeiling ==
    /\ rejected(lastReply)
    /\ Len(lastReply.atRequest) >= maxProductsFree
    /\ priceCache # EmptyMap
    /\ requests # EmptyMap
    /\ products = lastReply.atRequest

\* A checkAllPrices run that is suspended for good: the promise of
\* scrapePrice it awaits is never resolved.
stoppedRuns ==
    {id \in Pending : tasks[id].kind = "checkAllPrices" /\ pcOf(id) = "never"}

(* C12: in one checkAllPrices run over several products a failure while     *)
(* checking one product does not stop the run: no run stays stopped at one  *)
(* product of a collection that holds other products, whose prices would    *)
(* then not be checked, recorded and saved in that run.                     *)
C12_FailureDoesNotStopRun ==
    \A id \in stoppedRuns : Len(tasks[id].products) = 1

(***************************************************************************)
(* SpecOverlap: handlers are invoked while earlier invocations are still   *)
(* waiting for their responses: a manual check during a scheduled check,   *)
(* add-product, remove-product and clear-all-products during a check or an *)
(* add-product.  Each invocation works on the product list it read from    *)
(* the store when it started.  The test product is added while nothing     *)
(* else is running.                                                        *)
(***************************************************************************)
CanOverlap == ops < MaxOps /\ Cardinality(Pending) < MaxOverlap

AddProductOverlapping(data) ==
    /\ CanOverlap
    /\ Becomes(addProduct(Machine, ops, data))
    /\ Invoked

CheckOverlapping ==
    /\ CanOverlap
    /\ Becomes(checkAllPrices(Machine, ops))
    /\ Invoked

RemoveOverlapping(productId) ==
    /\ CanOverlap
    /\ Becomes(removeProduct(Machine, ops, productId))
    /\ Invoked

ClearOverlapping ==
    /\ CanOverlap
    /\ Becomes(clearAllProducts(Machine, ops))
    /\ Invoked

OverlapRequests == {ProductData(<<"t","v">>, <<"A">>, {s_amazon}, Undefined)}

NextOverlap ==
    \/ \E data \in OverlapRequests : AddProductOverlapping(data)
    \/ TestAddProduct
    \/ CheckOverlapping
    \/ \E productId \in ProductIds : RemoveOverlapping(productId)
    \/ ClearOverlapping
    \/ \E id \in Pending, html \in Htmls : Response200(id, html)
    \/ \E id \in Pending : RequestFails(id)

SpecOverlap == Init /\ [][NextOverlap]_vars

\* A checkAllPrices run that was waiting for a response finishes in this
\* step, and writes its list to the store (main.js 303).
runFinishes(id) ==
    /\ id \in Pending
    /\ tasks[id].kind = "checkAllPrices"
    /\ id \notin DOMAIN tasks'

\* Two records of the same product: the same id and the same url (test
\* products) or the same query (search products).
sameProduct(p, q) ==
    /\ p.id = q.id
    /\ DOMAIN p = DOMAIN q
    /\ IF "url" \in DOMAIN p THEN p.url = q.url ELSE p.searchTerms = q.searchTerms

positionsOf(prods, p) == {k \in 1..Len(prods) : sameProduct(prods[k], p)}

isPrefix(s, t) == Len(s) <= Len(t) /\ SubSeq(t, 1, Len(s)) = s

(* C13: when two checkAllPrices runs overlap on the same product, writes to *)
(* its history are serialized: if the stored history has only grown since   *)
(* a run read it (entries of the other run), the run that finishes leaves   *)
(* in the store that history with its own entry appended, so that after     *)
(* both runs the history holds one new entry for each run and none is lost. *)
C13_HistoryWritesSerialized ==
    [][\A id \in Pending : runFinishes(id) =>
          \A k \in 1..Len(products) :
              \A i \in positionsOf(tasks[id].atRequest, products[k]) :
                  isPrefix(tasks[id].atRequest[i].priceHistory, products[k].priceHistory) =>
                      \A j \in positionsOf(products', products[k]) :
                          /\ Len(products'[j].priceHistory) = Len(products[k].priceHistory) + 1
                          /\ isPrefix(products[k].priceHistory, products'[j].priceHistory)]_vars

\* The products of a list, each named by its id and its url or query.
productKeys(prods) ==
    [k \in 1..Len(prods) |->
        <<prods[k].id, IF "url" \in DOMAIN prods[k] THEN prods[k].url ELSE prods[k].searchTerms>>]

\* A checkAllPrices run or an add-product that was waiting for a response
\* finishes in this step.
finishes(id, kind) ==
    /\ id \in Pending
    /\ tasks[id].kind = kind
    /\ id \notin DOMAIN tasks'

(* C14: every store mutation that reported success stays in effect after a  *)
(* concurrently running checkAllPrices or add-product finishes: a run that  *)
(* finishes leaves in the store the products that were there just before,   *)
(* an add-product that finishes leaves those and its new product; neither   *)
(* writes back a list that re-creates a removed product or drops an added   *)
(* one.                                                                     *)
C14_NoStaleWriteBack ==
    [][\A id \in Pending :
          /\ finishes(id, "checkAllPrices") =>
                productKeys(products') = productKeys(products)
          /\ (finishes(id, "add-product") /\ lastReply'.success) =>
                productKeys(products') =
                    Append(productKeys(products), productKeys(<<lastReply'.product>>)[1])]_vars

(***************************************************************************)
(* SpecFallback: getSearchFallbackPrice is called, for queries of every    *)
(* category branch with positive and negative hashes and the hash -2^31,   *)
(* and for every platform and an unlisted one, before and after an         *)
(* acquisition that fills the cache and a rate-limit window, and while     *)
(* time passes.                                                            *)
(* The value returned is noted with the pair it was called for.            *)
(***************************************************************************)
FallbackQueries ==
    {<<"i","p","h","o","n","e"," ","1","5">>,
     <<"p","h","o","n","e"," ","b","a","m","r","n","w","o","p">>,
     <<"m","a","c","b","o","o","k"," ","p","r","o">>,
     <<"l","a","p","t","o","p"," ","a","k","k","b","l","r","p","c">>,
     <<"a","i","r","p","o","d","s"," ","m","a","x">>,
     <<"e","a","r","b","u","d","s"," ","a","c","u","o","n","r","b","z">>,
     <<"t","v">>,
     <<"g","a","m","i","n","g"," ","c","h","a","i","r">>,
     <<"b","u","d","g","e","t">>,
     <<"p","o","l","y","g","e","n","e","l","u","b","r","i","c","a","n","t","s">>}

FallbackPlatforms == SupportedPlatforms \cup {s_etsy}

FallbackHtmls == {Html(<<999>>, <<"T","V">>)}

\* A call of getSearchFallbackPrice: what it returned, noted with the pair,
\* with the clock, the cache and the windows at the call, and with the note
\* of the call before it.
getSearchFallbackPriceCalled(searchTerms, platform) ==
    [handler |-> "getSearchFallbackPrice",
     request |-> [searchTerms |-> searchTerms, platform |-> platform],
     product |-> getSearchFallbackPrice(searchTerms, platform),
     at |-> now, cached |-> DOMAIN priceCache, windows |-> requests,
     previous |-> IF lastReply.handler = "getSearchFallbackPrice"
                  THEN [lastReply EXCEPT !.previous = [handler |-> "none"]]
                  ELSE [handler |-> "none"]]

FallbackCall(searchTerms, platform) ==
    /\ replies < MaxFallbackCalls
    /\ lastReply' = getSearchFallbackPriceCalled(searchTerms, platform)
    /\ replies' = replies + 1
    /\ UNCHANGED <<now, requests, priceCache, products, tasks, ops, rlWaiters,
                   rlCalls, admitted, httpLog, cacheStored, lastResolved,
                   sent, settings, autoCheckTimer>>

NextFallback ==
    \/ \E q \in FallbackQueries, p \in FallbackPlatforms : FallbackCall(q, p)
    \/ (ops < MaxFallbackAcquires /\ Acquire(<<"t","v">>, s_amazon))
    \/ \E id \in Pending, html \in FallbackHtmls : Response200(id, html)
    \/ \E id \in Pending : RequestFails(id)
    \/ \E t \in Instants(0, 1) : Tick(t)

SpecFallback == Init /\ [][NextFallback]_vars

fallbackReturned(r) == r.handler = "getSearchFallbackPrice"

\* The call noted last is a call for the pair of the call before it.
calledAgain ==
    /\ fallbackReturned(lastReply)
    /\ fallbackReturned(lastReply.previous)
    /\ lastReply.previous.request = lastReply.request

C16_FallbackPriceAtLeast10 ==
    fallbackReturned(lastReply) =>
        /\ lastReply.product.kind = "object"
        /\ lastReply.product.title # <<>>
        /\ lastReply.product.price > 0
        /\ lastReply.product.price >= 10

\* C16, witness: the fallback has returned for a phone query whose hash is
\* -2^31, on an unlisted platform.
C16_ReturnedForMinHash ==
    /\ fallbackReturned(lastReply)
    /\ hashLoop(lastReply.request.searchTerms) = <<32768, 0>>
    /\ includes(lastReply.request.searchTerms, <<"p","h","o","n","e">>)
    /\ lastReply.request.platform = s_etsy

\* The prices shown by the 200 responses of Spec.
servedPrices == UNION {{html.cands[i] : i \in 1..Len(html.cands)} : html \in Htmls}

(* C17: each entry of the price cache was written by a successful           *)
(* extraction from a 200 response (a validated price > 0, one of the prices *)
(* the responses showed, stored at the time of the response); an entry      *)
(* is never removed, and a call that ends in the fallback leaves the cache  *)
(* as it was: no fallback value or failure is written, none overwrites or   *)
(* evicts a cached extraction.                                              *)
C17_CacheHoldsExtractionsOnly ==
    [][/\ \A key \in DOMAIN priceCache' :
              /\ priceCache'[key].price > 0
              /\ priceCache'[key].price \in servedPrices
       /\ \A key \in DOMAIN priceCache :
              /\ key \in DOMAIN priceCache'
              /\ \/ priceCache'[key] = priceCache[key]
                 \/ priceCache'[key].timestamp = now'
       /\ (lastResolved' # lastResolved /\ lastResolved'.via = "fallback") =>
              priceCache' = priceCache]_vars

\* C17, witness: a request for a cached but expired pair has failed and the
\* call has returned the fallback, and the cached extraction is still there.
C17_FallbackAfterCachedExtraction ==
    /\ lastResolved.via = "fallback"
    /\ cacheKey(lastResolved) \in DOMAIN priceCache
    /\ priceCache[cacheKey(lastResolved)].price \in servedPrices
    /\ priceCache[cacheKey(lastResolved)].timestamp < now

\* The runs of checkAllPrices that have come to a product and have nothing
\* left to wait for there: no request in flight, no rate-limit timer.
checksAtRest ==
    {id \in Pending : tasks[id].kind = "checkAllPrices"
                      /\ pcOf(id) \notin {"rlwait", "inflight"}}

\* The lowest price among per-source results.
lowestPrice(results) ==
    CHOOSE price \in {results[k].price : k \in 1..Len(results)} :
        \A k \in 1..Len(results) : price <= results[k].price

(* C18: after each check of a product, every per-source result of the      *)
(* product (platformResults) holds the price and time acquired by that     *)
(* check, the history has one more entry, which carries the lowest of      *)
(* those prices, and the current price is the minimum over the per-source  *)
(* results.  Stated of the product as the run of checkAllPrices holds it   *)
(* once the run has nothing left to wait for at that product.              *)
C18_SourceResultsRefreshed ==
    \A id \in checksAtRest :
        LET run == tasks[id]
            product == run.products[run.i]
            before == run.atRequest[run.i]
            history == product.priceHistory
        IN  ("platformResults" \in DOMAIN product /\ product.platformResults # <<>>) =>
                /\ \A k \in 1..Len(product.platformResults) :
                       product.platformResults[k].lastChecked = run.scrape.t
                /\ Len(history) = Len(before.priceHistory) + 1
                /\ history[Len(history)].price = lowestPrice(product.platformResults)
                /\ history[Len(history)].timestamp = run.scrape.t
                /\ product.currentPrice = lowestPrice(product.platformResults)

\* The channels on which the presentation layer takes the update of a
\* product: preload.js onProductUpdated and onPriceUpdate.
updateChannels == {"product-updated", "price-update"}

\* The messages among `msgs` that are a structured update of the product:
\* its id, the new price, the previous price and the source.
updatesOf(msgs, productId, newPrice, oldPrice) ==
    {j \in 1..Len(msgs) :
        /\ msgs[j].channel \in updateChannels
        /\ msgs[j].payload.productId = productId
        /\ msgs[j].payload.newPrice = newPrice
        /\ msgs[j].payload.oldPrice = oldPrice
        /\ "source" \in DOMAIN msgs[j].payload}

(* C20: every check that records a new price for a product emits to the    *)
(* presentation layer one structured update for that product, carrying     *)
(* the product id, the new price, the previous price and the source.       *)
(* Stated of the step in which the response for the product a run of       *)
(* checkAllPrices awaits arrives and the run records the price.            *)
C20_UpdateEmittedOnRecord ==
    [][\A id \in Pending :
          LET run == tasks[id]
              held == IF id \in DOMAIN tasks' THEN tasks'[id].products ELSE products'
          IN  (/\ run.kind = "checkAllPrices"
               /\ (id \notin DOMAIN tasks' \/ tasks'[id] # run)
               /\ Len(held[run.i].recorded) > Len(run.products[run.i].recorded))
              => LET entry == held[run.i].recorded[Len(held[run.i].recorded)] IN
                 Cardinality(updatesOf(sent', held[run.i].id, entry.price,
                                       previousPrice(run.products[run.i]))) = 1]_vars

\* No two products of the list have the same id.
distinctIds(prods) ==
    \A i, j \in 1..Len(prods) : i # j => prods[i].id # prods[j].id

\* remove-product has returned in this step.
removeReplied == replies' = replies + 1 /\ lastReply'.handler = "remove-product"

(* C19: all products in the store have pairwise distinct ids after any     *)
(* sequence of add-product, test-add-product and test-add-ebay-product,    *)
(* two adds that complete within the same clock millisecond included,      *)
(* and remove-product(id) removes at most one product.                     *)
C19_DistinctIds ==
    [][/\ distinctIds(products')
       /\ removeReplied => Len(products') >= Len(products) - 1]_vars

\* The request supplies a target price that is not a positive number: zero,
\* a negative number or something that is not a number.
nonPositiveTarget(data) ==
    /\ data.kind = "object"
    /\ data.targetPrice.kind \in {"number", "string"}
    /\ (isNaN(data.targetPrice) \/ data.targetPrice.n <= 0)

(* C21: every add-product request that supplies a target price that is not *)
(* a positive number (zero, negative, not a number) is rejected and adds   *)
(* no product; and every stored product has a target price that is absent  *)
(* or > 0.                                                                 *)
C21_NonPositiveTargetRejected ==
    /\ (addProductReplied /\ nonPositiveTarget(lastReply.request)) =>
           /\ ~lastReply.success
           /\ lastReply.error # ""
           /\ lastReply.after = lastReply.atRequest
    /\ \A k \in 1..Len(products) :
           \/ products[k].targetPrice.kind = "null"
           \/ products[k].targetPrice.kind = "number" /\ products[k].targetPrice.n > 0

(***************************************************************************)
(* SpecExtract: extractFirstResultWithTitle(html, platform, searchTerms)   *)
(* called on pages whose first patterns match prices below, at and above   *)
(* the minimums and the ceiling, or do not match (0).                      *)
(***************************************************************************)
MaxExtractCalls == 1
MaxRules == 3
ExtractPrices == {0, 9, 50, 100, 150, 400, 500, 5000, 5001}
ExtractHtmls ==
    {Html(cands, <<>>) : cands \in UNION {[1..n -> ExtractPrices] : n \in 1..MaxRules}}
ExtractPlatforms == SupportedPlatforms \cup {s_etsy}
q_tv == <<"t","v">>
q_iPhone == <<"i","P","h","o","n","e">>
q_MacBook == <<"M","a","c","B","o","o","k">>
q_phone_laptop == <<"p","h","o","n","e"," ","l","a","p","t","o","p">>
ExtractQueries == {q_tv, q_iPhone, q_MacBook, q_phone_laptop}

ExtractCall(html, platform, searchTerms) ==
    /\ replies < MaxExtractCalls
    /\ lastReply' = [handler |-> "extractFirstResultWithTitle",
                     request |-> [html |-> html, platform |-> platform,
                                  searchTerms |-> searchTerms],
                     product |-> extractFirstResultWithTitle(html, platform, searchTerms)]
    /\ replies' = replies + 1
    /\ UNCHANGED <<now, requests, priceCache, products, tasks, ops, rlWaiters,
                   rlCalls, admitted, httpLog, cacheStored, lastResolved, sent, settings, autoCheckTimer>>

NextExtract ==
    \E html \in ExtractHtmls, platform \in ExtractPlatforms, q \in ExtractQueries :
        ExtractCall(html, platform, q)

SpecExtract == Init /\ [][NextExtract]_vars

extractReturned == lastReply.handler = "extractFirstResultWithTitle"

\* The price of a result: of {title, price}, or the bare number.
priceOf(v) == IF v.kind = "object" THEN v.price ELSE v.n

\* Rule i of the source matched and its candidate is within the band and at
\* or above the minimum for the query.
yieldsValid(r, i) ==
    /\ i <= numSelectors(r.platform)
    /\ r.html.cands[i] # 0
    /\ r.html.cands[i] <= 5000
    /\ r.html.cands[i] >= minPrice(r.platform, r.searchTerms)
    /\ (r.platform = s_amazon => r.html.cands[i] >= 10)

(* C22: extractFirstResultWithTitle returns the candidate of the           *)
(* lowest-index rule whose candidate passes validation: rules that do not  *)
(* match or whose candidate fails are skipped and the later rules are      *)
(* still tried; it returns null only when no rule yields a valid candidate.*)
C22_LowestValidRuleWins ==
    extractReturned =>
        LET r == lastReply.request
            rules == 1..Len(r.html.cands)
        IN  IF lastReply.product.kind = "null"
            THEN \A i \in rules : ~yieldsValid(r, i)
            ELSE \E i \in rules :
                    /\ yieldsValid(r, i)
                    /\ priceOf(lastReply.product) = r.html.cands[i]
                    /\ \A j \in 1..(i - 1) : ~yieldsValid(r, j)

\* C22, witness: the first rule does not match, the second yields a candidate
\* that fails validation, and the candidate of the third rule is returned.
C22_LaterRuleReturned ==
    /\ extractReturned
    /\ lastReply.request.platform = s_ebay
    /\ lastReply.request.html.cands = <<0, 9, 150>>
    /\ lastReply.product.kind = "object"
    /\ lastReply.product.price = 150

\* Some keyword of the list occurs in the query, whatever its case.
mentions(searchTerms, keywords) ==
    \E k \in keywords : includes(toLowerCase(searchTerms), k)
laptopWords == {<<"l","a","p","t","o","p">>, <<"m","a","c","b","o","o","k">>}
phoneWords == {<<"p","h","o","n","e">>, <<"i","p","h","o","n","e">>}

(* C23: every price extractFirstResultWithTitle returns is at most 5000    *)
(* and at least the minimum for the query; for each source the minimum of  *)
(* a laptop/macbook query is higher than that of a phone/iphone query,     *)
(* which is higher than the generic one, and a query with both kinds of    *)
(* keyword is held to the laptop minimum.                                  *)
C23_PriceWithinBand ==
    (extractReturned /\ lastReply.product.kind # "null") =>
        LET r == lastReply.request
            price == priceOf(lastReply.product)
            generic == minPrice(r.platform, q_tv)
            phone == minPrice(r.platform, q_iPhone)
            laptop == minPrice(r.platform, q_MacBook)
        IN  /\ price <= 5000
            /\ generic < phone /\ phone < laptop
            /\ price >= generic
            /\ mentions(r.searchTerms, phoneWords) => price >= phone
            /\ mentions(r.searchTerms, laptopWords) => price >= laptop

\* C23, witness: for a query with both kinds of keyword a candidate between
\* the phone minimum and the laptop minimum is passed over and a later one at
\* the laptop minimum is returned.
C23_BothKeywordsHeldToLaptop ==
    /\ extractReturned
    /\ lastReply.request.searchTerms = q_phone_laptop
    /\ lastReply.request.platform = s_walmart
    /\ lastReply.request.html.cands = <<150, 400>>
    /\ priceOf(lastReply.product) = 400

(***************************************************************************)
(* SpecSources: scrapeFirstResultPrice called for each supported source,   *)
(* every request answered by a 200 page on which the first rule of the     *)
(* source matches a price within the band.                                 *)
(***************************************************************************)
SourcePage == Html(<<999>>, <<"T","V">>)
SourcePrice == SourcePage.cands[1]
SourceQuery == <<"t","v">>

NextSources ==
    \/ \E platform \in SupportedPlatforms : Acquire(SourceQuery, platform)
    \/ \E id \in Pending : Response200(id, SourcePage)
    \/ \E t \in Instants(0, 1) : Tick(t)

SpecSources == Init /\ [][NextSources]_vars

\* The 200 response arrives in this step for the request of call `id`.
answered(id) ==
    /\ tasks[id].kind = "acquire"
    /\ pcOf(id) = "inflight"
    /\ id \notin DOMAIN tasks'

(* C24: for every supported source, when the response is 200 and an        *)
(* extraction rule yields a validated price, scrapeFirstResultPrice stores *)
(* the extracted result in the cache and returns the extracted price with  *)
(* a title, not the fallback price.                                        *)
C24_ExtractionStoredAndReturned ==
    [][\A id \in Pending :
          LET sc == tasks[id].scrape IN
          (/\ answered(id)
           /\ sc.platform \in SupportedPlatforms
           /\ extractFirstResultWithTitle(SourcePage, sc.platform, sc.arg) # Null)
          => /\ lastResolved'.via = "extracted"
             /\ lastResolved'.value.kind = "object"
             /\ lastResolved'.value.title # <<>>
             /\ lastResolved'.value.price = SourcePrice
             /\ cacheKey(sc) \in DOMAIN priceCache'
             /\ priceCache'[cacheKey(sc)].price = SourcePrice
             /\ priceCache'[cacheKey(sc)].timestamp = now']_vars

(***************************************************************************)
(* SpecTimer: the settings are stored by save-settings / update-settings,  *)
(* the application is started again with the stored settings, and the      *)
(* auto-check timer fires, while the test product is added and checked.    *)
(***************************************************************************)
MaxTimerFires == 2
MaxStarts == 2
SettingsValues ==
    {[checkInterval |-> interval, autoCheck |-> Undefined] :
        interval \in {Undefined, Num(0), Num(-5), NonNumeric, Num(1), Num(30),
                      Num(checkInterval)}}
    \cup {[checkInterval |-> Undefined, autoCheck |-> False]}

\* ipcMain.handle('save-settings') and ('update-settings'), main.js 1478-1487:
\* store.set('settings', settings); the timer is left as it is.
UpdateSettings(s) ==
    /\ settings' = s
    /\ UNCHANGED <<now, requests, priceCache, products, tasks, ops, rlWaiters,
                   rlCalls, admitted, httpLog, cacheStored, lastResolved,
                   lastReply, replies, sent, autoCheckTimer>>

\* The application is quit and started again: the store is read from disk,
\* the cache, the rate limiter and the calls in progress are gone, and
\* scheduleAutoCheck() runs (main.js 1728).
Restart ==
    /\ autoCheckTimer.starts < MaxStarts
    /\ autoCheckTimer' = scheduleAutoCheck(settings, now, autoCheckTimer)
    /\ requests' = EmptyMap
    /\ priceCache' = EmptyMap
    /\ tasks' = EmptyMap
    /\ rlWaiters' = {}
    /\ UNCHANGED <<now, products, ops, rlCalls, admitted, httpLog, cacheStored,
                   lastResolved, lastReply, replies, sent, settings>>

\* The interval of autoCheckTimer elapses: checkAllPrices() is called.
TimerFires ==
    /\ autoCheckTimer.active
    /\ autoCheckTimer.fired < MaxTimerFires
    /\ Cardinality(Pending) < MaxRunning
    /\ now' = autoCheckTimer.nextAt
    /\ autoCheckTimer' = [autoCheckTimer EXCEPT !.nextAt = @ + autoCheckTimer.period,
                                                !.fired = @ + 1]
    /\ LET st == checkAllPrices([Machine EXCEPT !.now = autoCheckTimer.nextAt], ops) IN
       /\ requests' = st.requests
       /\ priceCache' = st.priceCache
       /\ products' = st.products
       /\ tasks' = st.tasks
       /\ admitted' = st.admitted
       /\ httpLog' = st.httpLog
       /\ cacheStored' = st.cacheStored
       /\ lastResolved' = st.lastResolved
       /\ lastReply' = st.lastReply
       /\ replies' = st.replies
       /\ sent' = st.sent
    /\ ops' = ops + 1
    /\ UNCHANGED <<rlWaiters, rlCalls, settings>>

NextTimer ==
    \/ \E s \in SettingsValues : UpdateSettings(s)
    \/ Restart
    \/ TimerFires
    \/ TestAddProduct
    \/ \E id \in Pending : Response200(id, Html(<<100>>, <<>>))
    \/ \E id \in Pending : RequestFails(id)

SpecTimer == Init /\ [][NextTimer]_vars

(* C25: for every value of the stored settings.checkInterval (absent, 0,   *)
(* negative, non-numeric, a positive number of minutes) the period of the  *)
(* timer set by scheduleAutoCheck is at least 1 minute, and it is 60       *)
(* minutes when no interval is configured.                                 *)
C25_PeriodAtLeastOneMinute ==
    autoCheckTimer.active =>
        /\ autoCheckTimer.period >= 60000
        /\ autoCheckTimer.from.checkInterval = Undefined =>
               autoCheckTimer.period = 60 * 60000

(* C26: the running timer reflects the latest stored settings: once        *)
(* autoCheck = false is stored no further scheduled check is started, and  *)
(* once a new checkInterval is stored the following scheduled checks run   *)
(* at that interval, without a restart of the application.                 *)
C26_TimerFollowsSettings ==
    [][autoCheckTimer'.fired = autoCheckTimer.fired + 1 =>
          /\ settings.autoCheck # False
          /\ autoCheckTimer.period =
                 setIntervalPeriod(intervalMinutes(settings))]_vars

(***************************************************************************)
(* SpecTerminate: products are added by add-product and test-add-product   *)
(* and checked; every request in flight is answered or fails in the end    *)
(* (the request has a 15 s timeout).                                       *)
(***************************************************************************)
TerminateRequests ==
    {ProductData(<<"t","v">>, <<"A">>, {s_amazon}, Undefined),
     ProductData(<<"p","c">>, <<"C">>, {s_ebay}, Undefined)}

Answered ==
    \E id \in Pending : Response200(id, Html(<<100>>, <<>>)) \/ RequestFails(id)

NextTerminate ==
    \/ \E data \in TerminateRequests : AddProduct(data)
    \/ TestAddProduct
    \/ TestAddEbayProduct
    \/ CheckAllPrices
    \/ Answered

SpecTerminate == Init /\ [][NextTerminate]_vars /\ WF_vars(Answered)

\* A run of checkAllPrices is in progress: 'checking-prices-started' was sent
\* and 'checking-prices-completed' not yet.
checking == \E id \in Pending : tasks[id].kind = "checkAllPrices"

(* C27: every run of checkAllPrices terminates: whatever products the add  *)
(* operations have put in the store, a run that has sent                   *)
(* 'checking-prices-started' eventually saves the products and sends       *)
(* 'checking-prices-completed'.                                            *)
C27_RunTerminates == checking ~> ~checking

(***************************************************************************)
(* SpecSite: requests to amazon made by scrapeFirstResultPrice (keyed      *)
(* 'amazon') and by scrapePrice for the test product (keyed                *)
(* 'www.amazon.com'), all within one rate window.                          *)
(***************************************************************************)
NextSite ==
    \/ Acquire(<<"t","v">>, s_amazon)
    \/ TestAddProduct
    \/ \E id \in Pending : Response200(id, SourcePage)
    \/ \E id \in Pending : RequestFails(id)

SpecSite == Init /\ [][NextSite]_vars

\* The number of returns of waitIfNeeded(key) within the last window.
admittedInWindow(key) == Len(SelectOlder(MapGet(admitted, key, <<>>), now, windowMs))

(* C28: all outbound requests to one retail site share one rate-limit      *)
(* window: the admissions of scrapePrice (keyed by the hostname) and of    *)
(* scrapeFirstResultPrice (keyed by the platform name) for the same site   *)
(* together stay within 5 per 60 s.                                        *)
C28_SiteSharesWindow ==
    admittedInWindow(s_amazon) + admittedInWindow(hostname(testAmazonUrl)) <= maxRequests

\* A query with its letters in lower case and its white space removed.
RECURSIVE withoutBlanks(_)
withoutBlanks(s) ==
    IF s = <<>> THEN <<>>
    ELSE IF Head(s) = " " THEN withoutBlanks(Tail(s))
    ELSE <<Head(s)>> \o withoutBlanks(Tail(s))
caseAndSpaceNormalized(s) == withoutBlanks(toLowerCase(s))

\* Some tracked query equals q after case and whitespace normalization.
trackedUpToCaseAndSpace(prods, q) ==
    \E k \in 1..Len(prods) :
        /\ "searchTerms" \in DOMAIN prods[k]
        /\ caseAndSpaceNormalized(prods[k].searchTerms) = caseAndSpaceNormalized(q)

(* C29: add-product treats a new query as a duplicate of a tracked query   *)
(* exactly when the two are equal after case and whitespace normalization: *)
(* a query that still differs from every tracked query in some other       *)
(* character, punctuation for example, is not rejected as a duplicate.     *)
(* Stated of requests that pass the field validation, made with the store  *)
(* below the ceiling.                                                      *)
C29_DuplicateIffEqualUpToCaseAndSpace ==
    (/\ addProductReplied
     /\ hasQueryNameAndSource(lastReply.request)
     /\ ~nonPositiveTarget(lastReply.request)
     /\ Len(lastReply.atRequest) < maxProductsFree)
    => ((~lastReply.success /\ lastReply.error = duplicateError)
          <=> trackedUpToCaseAndSpace(lastReply.atRequest, lastReply.request.searchTerms))

(***************************************************************************)
(* retryWithBackoff, main.js 308-333.  The call is given by what each      *)
(* attempt of fn does: it returns a value, returns null or undefined, or   *)
(* throws.  The result notes the number of calls of fn, the delays waited  *)
(* in between, and how the call ends.                                      *)
(***************************************************************************)
Thrown == [kind |-> "thrown"]
Returned(v) == [kind |-> "returned", value |-> v]

RECURSIVE retryLoop(_, _, _, _, _)
retryLoop(fn, attempt, maxRetries, initialDelay, delays) ==
    IF attempt > maxRetries
    THEN [calls |-> attempt - 1, delays |-> delays, end |-> Returned(Null)]
    ELSE LET result == fn[attempt]
             \* initialDelay * Math.pow(2, attempt - 1)
             delay == initialDelay * 2^(attempt - 1)
         IN  IF result.kind = "thrown"
             THEN IF attempt < maxRetries
                  THEN retryLoop(fn, attempt + 1, maxRetries, initialDelay,
                                 Append(delays, delay))
                  ELSE \* throw error
                       [calls |-> attempt, delays |-> delays, end |-> Thrown]
             ELSE IF result.kind \notin {"null", "undefined"}
             THEN [calls |-> attempt, delays |-> delays, end |-> Returned(result)]
             ELSE IF attempt < maxRetries
             THEN retryLoop(fn, attempt + 1, maxRetries, initialDelay,
                            Append(delays, delay))
             ELSE retryLoop(fn, attempt + 1, maxRetries, initialDelay, delays)

retryWithBackoff(fn, maxRetries, initialDelay) ==
    retryLoop(fn, 1, maxRetries, initialDelay, <<>>)

(***************************************************************************)
(* SpecRetry: retryWithBackoff called with every behaviour of fn over its  *)
(* first attempts, with the default and other numbers of retries and       *)
(* delays.                                                                 *)
(***************************************************************************)
MaxRetryCalls == 1
MaxAttempts == 4
AttemptResults == {Num(7), Null, Undefined, Thrown}
RetryFns == [1..MaxAttempts -> AttemptResults]
RetryCounts == 0..MaxAttempts
RetryDelays == {1000, 250}

RetryCall(fn, maxRetries, initialDelay) ==
    /\ replies < MaxRetryCalls
    /\ lastReply' = [handler |-> "retryWithBackoff",
                     request |-> [fn |-> fn, maxRetries |-> maxRetries,
                                  initialDelay |-> initialDelay],
                     product |-> retryWithBackoff(fn, maxRetries, initialDelay)]
    /\ replies' = replies + 1
    /\ UNCHANGED <<now, requests, priceCache, products, tasks, ops, rlWaiters,
                   rlCalls, admitted, httpLog, cacheStored, lastResolved, sent,
                   settings, autoCheckTimer>>

NextRetry ==
    \E fn \in RetryFns, maxRetries \in RetryCounts, initialDelay \in RetryDelays :
        RetryCall(fn, maxRetries, initialDelay)

SpecRetry == Init /\ [][NextRetry]_vars

\* The attempts among the first maxRetries at which fn returns a result.
succeeding(r) ==
    {k \in 1..r.maxRetries : r.fn[k].kind \notin {"null", "undefined", "thrown"}}

(* C30: retryWithBackoff(fn, maxRetries, initialDelay) calls fn at most     *)
(* maxRetries times, returns the first non-null result without further     *)
(* calls, waits initialDelay * 2^(k-1) ms after a failed attempt           *)
(* k < maxRetries and not after the last attempt, and on exhaustion ends   *)
(* with null, not with an error, whether the last attempt returned null    *)
(* or threw.                                                               *)
C30_RetryEndsWithoutError ==
    lastReply.handler = "retryWithBackoff" =>
        LET r == lastReply.request
            out == lastReply.product
            first == CHOOSE k \in succeeding(r) : \A j \in succeeding(r) : k <= j
        IN  /\ out.calls <= r.maxRetries
            /\ out.end.kind = "returned"
            /\ IF succeeding(r) # {}
               THEN out.calls = first /\ out.end.value = r.fn[first]
               ELSE out.calls = r.maxRetries /\ out.end.value = Null
            /\ Len(out.delays) = IF succeeding(r) # {} THEN first - 1
                                 ELSE Max(0, r.maxRetries - 1)
            /\ \A k \in 1..Len(out.delays) : out.delays[k] = r.initialDelay * 2^(k - 1)

=============================================================================
